---- MODULE Spec2Model ----
(***************************************************************************)
(* A model of cruntime/src/integer.c: the arbitrary-precision integers of  *)
(* the runtime.  A BigInt is a reference-counted heap record (is_neg,      *)
(* extra, count, digits[]); an integer is either a small boxed machine     *)
(* integer or a reference to a BigInt.                                     *)
(*                                                                         *)
(* Every C function is an operator of the same name.  A function that      *)
(* touches the heap takes the machine state m and returns [m, r]: the      *)
(* machine state after the call and the value returned.                    *)
(*                                                                         *)
(* TLC's integers are 32 bits wide, so the digit base is scaled from       *)
(* 10^9 to 10^LOG_BASE with LOG_BASE = 2; MAX_EXTRA and the Karatsuba      *)
(* cutover are scaled with it so that the same branches are met with       *)
(* operands of a few digits.                                               *)
(***************************************************************************)
EXTENDS Integers, Sequences, FiniteSets, TLC

VARIABLES
  st,     \* machine state after the last operation: heap, flags, host parameters
  call,   \* the last operation and its arguments
  ret     \* what the last operation returned

vars == <<st, call, ret>>

----------------------------------------------------------------------------
(* Program constants *)

LOG_BASE == 2
BASE == 10 ^ LOG_BASE
MAX_EXTRA == 7
KARATSUBA_CUTOVER == 2
\* The coefficients of use_karatsuba, 0.000012 and 0.0025, scaled as the cutover
\* is: Karatsuba multiplication is used from twice the cutover on.
KARATSUBA_PER_PRODUCT == 1
KARATSUBA_PER_SUM == 2

(* Bounds of the model *)
MaxCount == 2          \* digits of an operand
MaxMulCount == 3       \* digits of an operand of the two multiplications
MaxSig == 3            \* significant digits written in a literal
MaxFrac == 2           \* fractional digits written in a literal
MaxScale == 4          \* magnitude of a small decimal scale
MaxScaleCount == 4     \* digits of an operand that is scaled
MaxPow == 6            \* a small exponent of a power
MaxCorrections == 3    \* rounds of the correction loop of a long division
MaxLongCount == 3      \* digits of the dividend of a long division
MaxAbsCount == 4       \* digits of an operand of add_abs and sub_abs

\* Contents of a digit slot that was never written.
Uninit == -1000000

\* What a read of an unwritten or out-of-range slot may yield.
JunkSet == {-3, 0, BASE - 1}

\* The hosts' choices of SMALLINT_MAX (runtime.h): below the base and above it.
SmallMaxChoices == {63, 127}

----------------------------------------------------------------------------
(* The heap: ptr_alloc, ptr_realloc, ptr_incref, ptr_decref, ptr_is_unique *)

Obj(rc, neg, count, extra, cap, d) ==
  [rc |-> rc, neg |-> neg, count |-> count, extra |-> extra, cap |-> cap, d |-> d]

Machine(smax, junk) ==
  [o |-> <<>>, wsh |-> FALSE, oob |-> FALSE, bad |-> FALSE,
   smax |-> smax, junk |-> junk, knuth |-> <<>>, move |-> <<>>]

Ret(m, r) == [m |-> m, r |-> r]

\* The statements of a function run in program order: Bind([a \in {e} |-> rest])
\* computes the statement e once, names its result a, and goes on with rest.
Bind(f) == f[CHOOSE a \in DOMAIN f : TRUE]

\* C's integer division and remainder: the quotient is truncated toward zero.
CDiv(a, b) ==
  IF (a >= 0) = (b > 0)
  THEN (IF a >= 0 THEN a ELSE -a) \div (IF b > 0 THEN b ELSE -b)
  ELSE -((IF a >= 0 THEN a ELSE -a) \div (IF b > 0 THEN b ELSE -b))

CMod(a, b) == a - b * CDiv(a, b)

bigint_is_neg_(m, b) == m.o[b].neg
bigint_sign_(m, b) == IF bigint_is_neg_(m, b) THEN -1 ELSE 1
bigint_count_(m, b) == m.o[b].count
bigint_available_(m, b) == m.o[b].count + m.o[b].extra
bigint_is_unique_(m, x) == m.o[x].rc = 1

\* b->digits[i]: a slot outside the allocation, or never written, reads as junk.
Digit(m, b, i) ==
  IF i < 0 \/ i >= m.o[b].cap THEN m.junk
  ELSE IF m.o[b].d[i + 1] = Uninit THEN m.junk
  ELSE m.o[b].d[i + 1]

\* The access b->digits[i] as far as the machine state goes: an access outside
\* the allocation is recorded in oob.
Fetch(m, b, i) == [m EXCEPT !.oob = @ \/ i < 0 \/ i >= m.o[b].cap]

bigint_last_digit_(m, b) ==
  Ret(Fetch(m, b, m.o[b].count - 1), Digit(m, b, m.o[b].count - 1))

\* b->digits[i] = v.  A store outside the allocation is recorded in oob, a store
\* into a buffer that is not unique in wsh, a store into a freed buffer in bad.
SetDigit(m, b, i, v) ==
  IF i < 0 \/ i >= m.o[b].cap
  THEN [m EXCEPT !.oob = TRUE]
  ELSE [m EXCEPT !.o[b].d[i + 1] = v,
                 !.wsh = @ \/ m.o[b].rc > 1,
                 !.bad = @ \/ m.o[b].rc = 0]

\* Assignment to the header fields of b.
SetHeader(m, b, neg, count, extra) ==
  [m EXCEPT !.o[b].neg = neg, !.o[b].count = count, !.o[b].extra = extra,
            !.wsh = @ \/ m.o[b].rc > 1,
            !.bad = @ \/ m.o[b].rc = 0]

SetNeg(m, b, neg) == SetHeader(m, b, neg, m.o[b].count, m.o[b].extra)

bigint_incref(m, x) == [m EXCEPT !.o[x].rc = @ + 1, !.bad = @ \/ m.o[x].rc = 0]

bigint_decref(m, x) ==
  IF m.o[x].rc = 0 THEN [m EXCEPT !.bad = TRUE]
  ELSE [m EXCEPT !.o[x].rc = @ - 1]

bigint_dup(m, x) == Ret(bigint_incref(m, x), x)

----------------------------------------------------------------------------
(* allocation, trim *)

bigint_roundup_count(count) ==
  IF count < 4 THEN 4
  ELSE IF count % 2 = 1 THEN count + 1
  ELSE count

\* The extra field is MAX_EXTRA's width: a larger value is truncated.
ExtraT(n) == n % (MAX_EXTRA + 1)

bigint_alloc(m, count, is_neg) ==
  Bind([dcount \in {bigint_roundup_count(count)} |->
  Bind([b \in {Obj(1, is_neg, count, ExtraT(dcount - count), dcount,
                    [i \in 1..dcount |-> Uninit])} |->
    Ret([m EXCEPT !.o = Append(@, b)], Len(m.o) + 1)])])

bigint_alloc_zero(m, count, is_neg) ==
  Bind([a \in {bigint_alloc(m, count, is_neg)} |->
  Bind([n \in {bigint_available_(a.m, a.r)} |->
    Ret([a.m EXCEPT !.o[a.r].d = [i \in 1..a.m.o[a.r].cap |-> IF i <= n THEN 0 ELSE @[i]]],
        a.r)])])

bigint_trim_realloc_(m, x, count) ==
  Bind([dcount \in {bigint_roundup_count(count)} |->
  Bind([xcount \in {bigint_available_(m, x)} |->
    IF dcount <= xcount /\ xcount - dcount < 4
    THEN Ret(SetHeader(m, x, m.o[x].neg, count, ExtraT(xcount - count)), x)
    ELSE Bind([old \in {m.o[x]} |->
         Bind([m1 \in {[m EXCEPT !.o[x].cap = dcount,
                                  !.o[x].d = [i \in 1..dcount |->
                                                IF i <= old.cap THEN old.d[i] ELSE Uninit]]} |->
           Ret(SetHeader(m1, x, old.neg, count, ExtraT(dcount - count)), x)])])])])

bigint_trim_to(m, x, count, allow_realloc) ==
  Bind([d \in {bigint_available_(m, x) - count} |->
    IF d < 0 THEN Ret(m, x)
    ELSE IF d > MAX_EXTRA
    THEN IF allow_realloc
         THEN bigint_trim_realloc_(m, x, count)
         ELSE Ret(SetHeader(m, x, m.o[x].neg, count, MAX_EXTRA), x)
    ELSE Ret(SetHeader(m, x, m.o[x].neg, count, d), x)])

RECURSIVE SkipTopZeros(_, _, _)
SkipTopZeros(m, x, i) ==
  IF i > 0 /\ Digit(m, x, i - 1) = 0 THEN SkipTopZeros(m, x, i - 1) ELSE i

bigint_trim(m, x, allow_realloc) ==
  bigint_trim_to(m, x, SkipTopZeros(m, x, bigint_count_(m, x)), allow_realloc)

bigint_alloc_reuse_(m, x, count) ==
  Bind([d \in {bigint_available_(m, x) - count} |->
    IF d >= 0 /\ d <= MAX_EXTRA /\ bigint_is_unique_(m, x)
    THEN bigint_trim_to(m, x, count, FALSE)
    ELSE bigint_alloc(m, count, bigint_is_neg_(m, x))])

\* memcpy(&z->digits[zoff], &x->digits[xoff], n * sizeof(digit_t)), also memmove
CopyDigits(m, z, zoff, x, xoff, n) ==
  IF n <= 0 THEN m
  ELSE Bind([src \in {[i \in 0..(n - 1) |->
                          IF xoff + i < m.o[x].cap THEN m.o[x].d[xoff + i + 1] ELSE m.junk]} |->
       Bind([inb \in {{i \in 0..(n - 1) : zoff + i < m.o[z].cap}} |->
         [m EXCEPT !.o[z].d = [k \in 1..m.o[z].cap |->
                                 IF (k - 1 - zoff) \in inb THEN src[k - 1 - zoff] ELSE @[k]],
                   !.oob = @ \/ zoff + n > m.o[z].cap \/ xoff + n > m.o[x].cap,
                   !.wsh = @ \/ m.o[z].rc > 1,
                   !.bad = @ \/ m.o[z].rc = 0]])])

\* memset(&z->digits[0], 0, n * sizeof(digit_t))
ZeroDigits(m, z, n) ==
  IF n <= 0 THEN m
  ELSE [m EXCEPT !.o[z].d = [k \in 1..m.o[z].cap |-> IF k <= n THEN 0 ELSE @[k]],
                 !.oob = @ \/ n > m.o[z].cap,
                 !.wsh = @ \/ m.o[z].rc > 1,
                 !.bad = @ \/ m.o[z].rc = 0]

bigint_copy(m, x, extra) ==
  Bind([ex \in {IF extra > MAX_EXTRA THEN MAX_EXTRA ELSE extra} |->
  Bind([a \in {bigint_alloc(m, m.o[x].count + ex, bigint_is_neg_(m, x))} |->
  Bind([t \in {bigint_trim_to(a.m, a.r, m.o[x].count, FALSE)} |->
  Bind([m1 \in {CopyDigits(t.m, t.r, 0, x, 0, m.o[x].count)} |->
    Ret(bigint_decref(m1, x), t.r)])])])])

\* No copy: the buffer is handed on as it is, unique or not.
KeepShared(m, x) == Ret(m, x)

bigint_ensure_unique(m, x) ==
  IF bigint_is_unique_(m, x) THEN Ret(m, x) ELSE bigint_copy(m, x, 0)

bigint_push(m, x, d) ==
  Bind([c \in {IF m.o[x].extra = 0 THEN bigint_copy(m, x, MAX_EXTRA) ELSE Ret(m, x)} |->
  Bind([m1 \in {SetDigit(c.m, c.r, c.m.o[c.r].count, d)} |->
    Ret(SetHeader(m1, c.r, m1.o[c.r].neg, m1.o[c.r].count + 1,
             ExtraT(m1.o[c.r].extra - 1)), c.r)])])

----------------------------------------------------------------------------
(* integers: a small integer, a reference to a BigInt, or the null box *)

Small(i) == [t |-> "small", v |-> i]
Big(p) == [t |-> "big", v |-> p]
Null == [t |-> "null", v |-> 0]

is_smallint(x) == x.t = "small"
is_bigint(x) == x.t = "big"

integer_incref(m, x) == IF is_bigint(x) THEN bigint_incref(m, x.v) ELSE m
integer_decref(m, x) == IF is_bigint(x) THEN bigint_decref(m, x.v) ELSE m

\* Bigint to integer. Possibly converting to a small int.
integer_bigint(m, x) ==
  IF m.o[x].count = 1 /\ Digit(m, x, 0) <= m.smax
  THEN Bind([i \in {Digit(m, x, 0)} |->
         Ret(bigint_decref(m, x), Small(IF m.o[x].neg THEN -i ELSE i))])
  ELSE Ret(m, Big(x))

RECURSIVE PushDigitsOf(_, _, _)
PushDigitsOf(m, b, i) ==
  LET p == bigint_push(m, b, i % BASE)
  IN IF i \div BASE > 0 THEN PushDigitsOf(p.m, p.r, i \div BASE) ELSE p

bigint_from_int(m, i) ==
  Bind([a \in {bigint_alloc(m, 0, i < 0)} |->
    PushDigitsOf(a.m, a.r, IF i < 0 THEN -i ELSE i)])

integer_to_bigint(m, x) ==
  IF is_bigint(x) THEN Ret(m, x.v) ELSE bigint_from_int(m, x.v)

integer_from_big(m, i) ==
  Bind([b \in {bigint_from_int(m, i)} |->
    Ret(b.m, Big(b.r))])

\* runtime/integer.h: a machine integer in the small range is boxed, any other is big
integer_from_int(m, i) ==
  IF i >= -m.smax - 1 /\ i <= m.smax THEN Ret(m, Small(i)) ELSE integer_from_big(m, i)

----------------------------------------------------------------------------
(* negate, compare *)

bigint_neg(m, x) ==
  Bind([z \in {bigint_ensure_unique(m, x)} |->
    Ret(SetNeg(z.m, z.r, ~z.m.o[z.r].neg), z.r)])

RECURSIVE CompareDigits(_, _, _, _)
CompareDigits(m, x, y, i) ==
  IF i <= 0 THEN 0
  ELSE IF Digit(m, x, i - 1) # Digit(m, y, i - 1)
  THEN (IF Digit(m, x, i - 1) > Digit(m, y, i - 1) THEN 1 ELSE -1)
  ELSE CompareDigits(m, x, y, i - 1)

\* A comparison that looks at the counts only: with it in place of
\* bigint_compare_abs_, bigint_sub subtracts the larger from the smaller.
CompareCountsOnly(m, x, y) ==
  IF bigint_count_(m, x) > bigint_count_(m, y) THEN 1
  ELSE IF bigint_count_(m, x) < bigint_count_(m, y) THEN -1
  ELSE 0

bigint_compare_abs_(m, x, y) ==
  Bind([cx \in {bigint_count_(m, x)} |->
  Bind([cy \in {bigint_count_(m, y)} |->
    IF cx > cy THEN 1
    ELSE IF cx < cy THEN -1
    ELSE CompareDigits(m, x, y, cx)])])

\* A comparison of the magnitudes only, the signs being equal or not.
CompareUnsigned(m, x, y) == bigint_compare_abs_(m, x, y)

bigint_compare_(m, x, y) ==
  IF m.o[x].neg # m.o[y].neg
  THEN (IF m.o[y].neg THEN 1 ELSE -1)
  ELSE bigint_sign_(m, x) * bigint_compare_abs_(m, x, y)

----------------------------------------------------------------------------
(* add absolute *)

\* for (i = 0; i < cy; i++): add y's digits
RECURSIVE AddYDigits(_, _, _, _, _, _, _)
AddYDigits(m, x, y, z, cy, i, carry) ==
  IF i >= cy THEN [m |-> m, i |-> i, carry |-> carry]
  ELSE LET sum == Digit(m, x, i) + Digit(m, y, i) + carry
       IN IF sum >= BASE
          THEN AddYDigits(SetDigit(m, z, i, sum - BASE), x, y, z, cy, i + 1, 1)
          ELSE AddYDigits(SetDigit(m, z, i, sum), x, y, z, cy, i + 1, 0)

\* for (; carry != 0 && i < cx; i++): propagate the carry
RECURSIVE AddCarry(_, _, _, _, _, _)
AddCarry(m, x, z, cx, i, carry) ==
  IF ~(carry # 0 /\ i < cx) THEN [m |-> m, i |-> i, carry |-> carry]
  ELSE LET sum == Digit(m, x, i) + carry
       IN IF sum >= BASE
          THEN AddCarry(SetDigit(m, z, i, sum - BASE), x, z, cx, i + 1, carry)
          ELSE AddCarry(SetDigit(m, z, i, sum), x, z, cx, i + 1, 0)

bigint_add_abs(m, x, y) ==
  Bind([cx \in {bigint_count_(m, x)} |->
  Bind([cy \in {bigint_count_(m, y)} |->
  Bind([lx \in {bigint_last_digit_(m, x)} |->
  Bind([ly \in {bigint_last_digit_(lx.m, y)} |->
  Bind([cz \in {IF lx.r + ly.r + 1 >= BASE THEN cx + 1 ELSE cx} |->
  Bind([a \in {bigint_alloc_reuse_(ly.m, x, cz)} |->
  Bind([z \in {a.r} |->
  Bind([l1 \in {AddYDigits(a.m, x, y, z, cy, 0, 0)} |->
  Bind([l2 \in {AddCarry(l1.m, x, z, cx, l1.i, l1.carry)} |->
  \* copy the tail
  Bind([m3 \in {IF l2.i < cx /\ z # x THEN CopyDigits(l2.m, z, l2.i, x, l2.i, cx - l2.i)
                 ELSE l2.m} |->
  \* carry flows into final extra digit?
  Bind([m4 \in {IF l2.carry # 0 THEN SetDigit(m3, z, cx, l2.carry) ELSE m3} |->
  Bind([i \in {IF l2.carry # 0 THEN cx + 1 ELSE cx} |->
  Bind([m5 \in {IF z # x THEN bigint_decref(m4, x) ELSE m4} |->
  Bind([m6 \in {bigint_decref(m5, y)} |->
    bigint_trim_to(m6, z, i, TRUE)])])])])])])])])])])])])])])

----------------------------------------------------------------------------
(* subtract absolute *)

\* for (i = 0; i < cy; i++): subtract y digits
RECURSIVE SubYDigits(_, _, _, _, _, _, _)
SubYDigits(m, x, y, z, cy, i, borrow) ==
  IF i >= cy THEN [m |-> m, i |-> i, borrow |-> borrow]
  ELSE LET diff == Digit(m, x, i) - borrow - Digit(m, y, i)
       IN IF diff < 0
          THEN SubYDigits(SetDigit(m, z, i, diff + BASE), x, y, z, cy, i + 1, 1)
          ELSE SubYDigits(SetDigit(m, z, i, diff), x, y, z, cy, i + 1, 0)

\* for (; borrow != 0 && i < cx; i++): propagate borrow
RECURSIVE SubBorrow(_, _, _, _, _, _)
SubBorrow(m, x, z, cx, i, borrow) ==
  IF ~(borrow # 0 /\ i < cx) THEN [m |-> m, i |-> i, borrow |-> borrow]
  ELSE LET diff == Digit(m, x, i) - borrow
       IN IF diff < 0
          THEN SubBorrow(SetDigit(m, z, i, diff + BASE), x, z, cx, i + 1, borrow)
          ELSE SubBorrow(SetDigit(m, z, i, diff), x, z, cx, i + 1, 0)

bigint_sub_abs(m, x, y) ==
  Bind([cx \in {bigint_count_(m, x)} |->
  Bind([cy \in {bigint_count_(m, y)} |->
  Bind([a \in {bigint_alloc_reuse_(m, x, cx)} |->
  Bind([z \in {a.r} |->
  Bind([l1 \in {SubYDigits(a.m, x, y, z, cy, 0, 0)} |->
  Bind([l2 \in {SubBorrow(l1.m, x, z, cx, l1.i, l1.borrow)} |->
  \* copy the tail: for (; i <= cx; i++) z->digits[i] = x->digits[i]
  Bind([m3 \in {IF z # x
                 THEN bigint_decref(CopyDigits(l2.m, z, l2.i, x, l2.i, cx + 1 - l2.i), x)
                 ELSE l2.m} |->
  Bind([m4 \in {bigint_decref(m3, y)} |->
    bigint_trim(m4, z, TRUE)])])])])])])])])

----------------------------------------------------------------------------
(* Addition and subtraction *)

RECURSIVE bigint_add(_, _, _, _)
RECURSIVE bigint_sub(_, _, _, _)

bigint_add(m, x, y, yneg) ==
  IF bigint_is_neg_(m, x) # yneg
  THEN bigint_sub(m, x, y, ~yneg)
  ELSE Bind([z \in {IF bigint_count_(m, x) < bigint_count_(m, y)
                     THEN bigint_add_abs(m, y, x)
                     ELSE bigint_add_abs(m, x, y)} |->
         Ret(SetNeg(z.m, z.r, yneg), z.r)])

bigint_sub(m, x, y, yneg) ==
  IF bigint_is_neg_(m, x) # yneg
  THEN bigint_add(m, x, y, ~yneg)
  ELSE IF bigint_compare_abs_(m, x, y) >= 0
  THEN bigint_sub_abs(m, x, y)
  ELSE Bind([z \in {bigint_sub_abs(m, y, x)} |->
         Ret(SetNeg(z.m, z.r, ~yneg), z.r)])

----------------------------------------------------------------------------
(* Multiply & Sqr. including Karatsuba multiplication *)

\* The body of the two nested loops of bigint_mul, k = i * cy + j.
MulDigit(m, x, y, z, cy, k) ==
  LET i == k \div cy
      j == k % cy
      prod == Digit(m, x, i) * Digit(m, y, j) + Digit(m, z, i + j)
      carry == CDiv(prod, BASE)
      m1 == SetDigit(m, z, i + j, prod - carry * BASE)
  IN SetDigit(m1, z, i + j + 1, Digit(m1, z, i + j + 1) + carry)

\* The iterations lo <= k < hi of the two nested loops of bigint_mul, in the
\* order of the code: the first half of them, then the second half.
RECURSIVE MulDigits(_, _, _, _, _, _, _)
MulDigits(m, x, y, z, cy, lo, hi) ==
  IF hi <= lo THEN m
  ELSE IF hi = lo + 1 THEN MulDigit(m, x, y, z, cy, lo)
  ELSE Bind([mid \in {(lo + hi) \div 2} |->
       Bind([m1 \in {MulDigits(m, x, y, z, cy, lo, mid)} |->
         MulDigits(m1, x, y, z, cy, mid, hi)])])

bigint_mul(m, x, y) ==
  Bind([cx \in {bigint_count_(m, x)} |->
  Bind([cy \in {bigint_count_(m, y)} |->
  Bind([is_neg \in {bigint_is_neg_(m, x) # bigint_is_neg_(m, y)} |->
  Bind([z \in {bigint_alloc_zero(m, cx + cy, is_neg)} |->
  Bind([m1 \in {MulDigits(z.m, x, y, z.r, cy, 0, cx * cy)} |->
  Bind([m2 \in {bigint_decref(bigint_decref(m1, x), y)} |->
    bigint_trim(m2, z.r, TRUE)])])])])])])

\* for (i = 0; i < cx; i++) of bigint_mul_small
RECURSIVE MulSmallDigits(_, _, _, _, _, _, _)
MulSmallDigits(m, x, z, y, cx, i, carry) ==
  IF i >= cx THEN [m |-> m, i |-> i, carry |-> carry]
  ELSE LET prod == Digit(m, x, i) * y + carry
           c == CDiv(prod, BASE)
       IN MulSmallDigits(SetDigit(m, z, i, prod - c * BASE), x, z, y, cx, i + 1, c)

\* while (carry > 0) z->digits[i++] = carry % BASE
RECURSIVE MulSmallCarry(_, _, _, _)
MulSmallCarry(m, z, i, carry) ==
  IF carry <= 0 THEN [m |-> m, i |-> i]
  ELSE MulSmallCarry(SetDigit(m, z, i, CMod(carry, BASE)), z, i + 1, CDiv(carry, BASE))

bigint_mul_small(m, x, y) ==
  Bind([cx \in {bigint_count_(m, x)} |->
  Bind([is_neg \in {bigint_is_neg_(m, x) /\ y < 0} |->
  Bind([a \in {bigint_alloc_reuse_(m, x, cx + 1)} |->
  Bind([z \in {a.r} |->
  Bind([l1 \in {MulSmallDigits(a.m, x, z, IF y < 0 THEN -y ELSE y, cx, 0, 0)} |->
  Bind([l2 \in {MulSmallCarry(l1.m, z, l1.i, l1.carry)} |->
  Bind([m3 \in {IF z # x THEN bigint_decref(l2.m, x) ELSE l2.m} |->
  Bind([n \in {IF is_neg /\ ~bigint_is_neg_(m3, z) THEN bigint_neg(m3, z) ELSE Ret(m3, z)} |->
    bigint_trim_to(n.m, n.r, l2.i, TRUE)])])])])])])])])

bigint_sqr(m, x) == bigint_mul(bigint_incref(m, x), x, x)

bigint_shift_left(m, x, digits) ==
  IF digits <= 0 THEN Ret(m, x)
  ELSE Bind([cx \in {m.o[x].count} |->
       Bind([z \in {bigint_alloc_reuse_(m, x, cx + digits)} |->
       Bind([m1 \in {CopyDigits(z.m, z.r, digits, x, 0, cx)} |->
       Bind([m2 \in {ZeroDigits(m1, z.r, digits)} |->
         Ret(IF z.r # x THEN bigint_decref(m2, x) ELSE m2, z.r)])])])])

bigint_slice(m, x, lo, hi) ==
  IF lo = 0 /\ bigint_is_unique_(m, x)
  THEN bigint_trim_to(m, x, hi, FALSE)
  ELSE Bind([lo1 \in {IF lo >= m.o[x].count THEN m.o[x].count ELSE lo} |->
       Bind([hi1 \in {IF hi > m.o[x].count THEN m.o[x].count ELSE hi} |->
       Bind([cz \in {hi1 - lo1} |->
       Bind([z \in {bigint_alloc(m, cz, m.o[x].neg)} |->
         IF cz = 0
         THEN Bind([m1 \in {SetDigit(z.m, z.r, 0, 0)} |->
                Ret(SetHeader(m1, z.r, m1.o[z.r].neg, 1, ExtraT(m1.o[z.r].extra - 1)), z.r)])
         ELSE IF lo1 < m.o[x].count
         THEN Ret(CopyDigits(z.m, z.r, 0, x, lo1, cz), z.r)
         ELSE z])])])])

RECURSIVE bigint_mul_karatsuba(_, _, _)
bigint_mul_karatsuba(m, x, y) ==
  Bind([n0 \in {IF m.o[x].count >= m.o[y].count THEN m.o[x].count ELSE m.o[y].count} |->
    IF n0 <= KARATSUBA_CUTOVER THEN bigint_mul(m, x, y)
    ELSE
      Bind([n \in {(n0 + 1) \div 2} |->
      Bind([b \in {bigint_slice(bigint_incref(m, x), x, n, m.o[x].count)} |->
      Bind([a \in {bigint_slice(b.m, x, 0, n)} |->
      Bind([d \in {bigint_slice(bigint_incref(a.m, y), y, n, a.m.o[y].count)} |->
      Bind([c \in {bigint_slice(d.m, y, 0, n)} |->
      Bind([ac \in {bigint_mul_karatsuba(bigint_incref(bigint_incref(c.m, a.r), c.r), a.r, c.r)} |->
      Bind([bd \in {bigint_mul_karatsuba(bigint_incref(bigint_incref(ac.m, b.r), d.r), b.r, d.r)} |->
      Bind([ab \in {bigint_add(bd.m, a.r, b.r, bd.m.o[b.r].neg)} |->
      Bind([cd \in {bigint_add(ab.m, c.r, d.r, ab.m.o[d.r].neg)} |->
      Bind([abcd \in {bigint_mul_karatsuba(cd.m, ab.r, cd.r)} |->
      Bind([s1 \in {bigint_sub(bigint_incref(abcd.m, ac.r), abcd.r, ac.r, abcd.m.o[ac.r].neg)} |->
      Bind([s2 \in {bigint_sub(bigint_incref(s1.m, bd.r), s1.r, bd.r, s1.m.o[bd.r].neg)} |->
      Bind([p1 \in {bigint_shift_left(s2.m, s2.r, n)} |->
      Bind([p2 \in {bigint_shift_left(p1.m, bd.r, 2 * n)} |->
      Bind([t1 \in {bigint_add(p2.m, ac.r, p1.r, p2.m.o[p1.r].neg)} |->
      Bind([prod \in {bigint_add(t1.m, t1.r, p2.r, t1.m.o[p2.r].neg)} |->
        bigint_trim(prod.m, prod.r, TRUE)])])])])])])])])])])])])])])])])])

----------------------------------------------------------------------------
(* Integer interface *)

integer_neg_generic(m, x) ==
  Bind([bx \in {integer_to_bigint(m, x)} |->
  Bind([z \in {bigint_neg(bx.m, bx.r)} |->
    integer_bigint(z.m, z.r)])])

integer_cmp_generic(m, x, y) ==
  Bind([bx \in {integer_to_bigint(m, x)} |->
  Bind([by \in {integer_to_bigint(bx.m, y)} |->
  Bind([sign \in {bigint_compare_(by.m, bx.r, by.r)} |->
    Ret(bigint_decref(bigint_decref(by.m, bx.r), by.r), sign)])])])

integer_add_generic(m, x, y) ==
  Bind([bx \in {integer_to_bigint(m, x)} |->
  Bind([by \in {integer_to_bigint(bx.m, y)} |->
  Bind([z \in {bigint_add(by.m, bx.r, by.r, by.m.o[by.r].neg)} |->
    integer_bigint(z.m, z.r)])])])

integer_sub_generic(m, x, y) ==
  Bind([bx \in {integer_to_bigint(m, x)} |->
  Bind([by \in {integer_to_bigint(bx.m, y)} |->
  Bind([z \in {bigint_sub(by.m, bx.r, by.r, by.m.o[by.r].neg)} |->
    integer_bigint(z.m, z.r)])])])

integer_sqr_generic(m, x) ==
  Bind([bx \in {integer_to_bigint(m, x)} |->
  Bind([z \in {bigint_sqr(bx.m, bx.r)} |->
    integer_bigint(z.m, z.r)])])

integer_signum_generic(m, x) ==
  Bind([bx \in {integer_to_bigint(m, x)} |->
  Bind([signum \in {IF bx.m.o[bx.r].neg THEN -1
                     ELSE IF bx.m.o[bx.r].count = 0 /\ Digit(bx.m, bx.r, 0) = 0 THEN 0
                     ELSE 1} |->
    Ret(integer_decref(bx.m, x), signum)])])

integer_is_even_generic(m, x) ==
  IF is_smallint(x) THEN Ret(m, x.v % 2 = 0)
  ELSE Bind([bx \in {integer_to_bigint(m, x)} |->
       Bind([even \in {Digit(bx.m, bx.r, 0) % 2 = 0} |->
         Ret(integer_decref(bx.m, x), even)])])

\* (0.000012*(i*j) - 0.0025*(i+j)) >= 0, in integers
use_karatsuba(i, j) == KARATSUBA_PER_PRODUCT * (i * j) - KARATSUBA_PER_SUM * (i + j) >= 0

integer_mul_generic(m, x, y) ==
  Bind([bx \in {integer_to_bigint(m, x)} |->
  Bind([by \in {integer_to_bigint(bx.m, y)} |->
  Bind([usek \in {use_karatsuba(by.m.o[bx.r].count, by.m.o[by.r].count)} |->
  Bind([z \in {IF usek THEN bigint_mul_karatsuba(by.m, bx.r, by.r)
                ELSE bigint_mul(by.m, bx.r, by.r)} |->
    integer_bigint(z.m, z.r)])])])])

----------------------------------------------------------------------------
(* runtime/integer.h: the inlined operations.  Two small operands whose     *)
(* result is in the small range are computed in machine arithmetic; every   *)
(* other case goes to the generic function.                                 *)

FitsSmall(m, i) == i >= -m.smax - 1 /\ i <= m.smax

integer_neg(m, x) ==
  IF is_smallint(x) /\ FitsSmall(m, -x.v) THEN Ret(m, Small(-x.v))
  ELSE integer_neg_generic(m, x)

integer_add(m, x, y) ==
  IF is_smallint(x) /\ is_smallint(y) /\ FitsSmall(m, x.v + y.v)
  THEN Ret(m, Small(x.v + y.v))
  ELSE integer_add_generic(m, x, y)

integer_sub(m, x, y) ==
  IF is_smallint(x) /\ is_smallint(y) /\ FitsSmall(m, x.v - y.v)
  THEN Ret(m, Small(x.v - y.v))
  ELSE integer_sub_generic(m, x, y)

integer_mul(m, x, y) ==
  IF is_smallint(x) /\ is_smallint(y) /\ FitsSmall(m, x.v * y.v)
  THEN Ret(m, Small(x.v * y.v))
  ELSE integer_mul_generic(m, x, y)

integer_sqr(m, x) ==
  IF is_smallint(x) /\ FitsSmall(m, x.v * x.v) THEN Ret(m, Small(x.v * x.v))
  ELSE integer_sqr_generic(m, x)

integer_cmp(m, x, y) ==
  IF is_smallint(x) /\ is_smallint(y)
  THEN Ret(m, IF x.v > y.v THEN 1 ELSE IF x.v < y.v THEN -1 ELSE 0)
  ELSE integer_cmp_generic(m, x, y)

integer_signum(m, x) ==
  IF is_smallint(x) THEN Ret(m, IF x.v > 0 THEN 1 ELSE IF x.v < 0 THEN -1 ELSE 0)
  ELSE integer_signum_generic(m, x)

integer_is_even(m, x) ==
  IF is_smallint(x) THEN Ret(m, x.v % 2 = 0) ELSE integer_is_even_generic(m, x)

----------------------------------------------------------------------------
(* Division *)

\* for (i = cx; i > 0; i--) of bigint_div_mod_small
RECURSIVE DivSmallDigits(_, _, _, _, _, _)
DivSmallDigits(m, x, z, y, i, mod) ==
  IF i <= 0 THEN [m |-> m, mod |-> mod]
  ELSE LET div == mod * BASE + Digit(m, x, i - 1)
           q == CDiv(div, y)
       IN DivSmallDigits(SetDigit(m, z, i - 1, q), x, z, y, i - 1, div - q * y)

\* The quotient (r) and the remainder (mod) of a function that yields both.
DivModRet(m, r, mod) == [m |-> m, r |-> r, mod |-> mod]

\* In the place of a remainder: *mod was not assigned, the caller's variable
\* holds what it held before the call.
Unset == [t |-> "unset", v |-> 0]

bigint_div_mod_small(m, x, y) ==
  Bind([cx \in {bigint_count_(m, x)} |->
  Bind([a \in {bigint_alloc_reuse_(m, x, cx)} |->
  Bind([l \in {DivSmallDigits(a.m, x, a.r, y, cx, 0)} |->
  Bind([m2 \in {IF a.r # x THEN bigint_decref(l.m, x) ELSE l.m} |->
  Bind([t \in {bigint_trim(m2, a.r, TRUE)} |->
    DivModRet(t.m, t.r, l.mod)])])])])])

\* for (i = 0; i < cd; i++): rem -= qd * div, at the shift
RECURSIVE KnuthSubtract(_, _, _, _, _, _, _, _, _)
KnuthSubtract(m, rem, div, shift, qd, cd, i, carry, borrow) ==
  IF i >= cd THEN [m |-> m, borrow |-> borrow]
  ELSE LET carry1 == carry + qd * Digit(m, div, i)
           q == CDiv(carry1, BASE)
           borrow1 == borrow + Digit(m, rem, shift + i) - (carry1 - q * BASE)
       IN IF borrow1 < 0
          THEN KnuthSubtract(SetDigit(m, rem, shift + i, borrow1 + BASE),
                             rem, div, shift, qd, cd, i + 1, q, -1)
          ELSE KnuthSubtract(SetDigit(m, rem, shift + i, borrow1),
                             rem, div, shift, qd, cd, i + 1, q, 0)

\* for (i = 0; i < cd; i++): rem += div, at the shift
RECURSIVE KnuthAddBack(_, _, _, _, _, _, _)
KnuthAddBack(m, rem, div, shift, cd, i, carry) ==
  IF i >= cd THEN [m |-> m, carry |-> carry]
  ELSE LET c == carry + Digit(m, rem, shift + i) - BASE + Digit(m, div, i)
       IN IF c < 0
          THEN KnuthAddBack(SetDigit(m, rem, shift + i, c + BASE), rem, div, shift, cd, i + 1, 0)
          ELSE KnuthAddBack(SetDigit(m, rem, shift + i, c), rem, div, shift, cd, i + 1, 1)

\* A long division that keeps the estimated quotient digit and never adds the
\* divisor back.
KnuthNoCorrect(m, rem, div, shift, cd, qd, borrow, n) ==
  [m |-> m, qd |-> qd, borrow |-> borrow, n |-> n]

\* while (borrow != 0): the estimate was too large.  n counts the rounds; the
\* loop of the model gives up after MaxCorrections of them.
RECURSIVE KnuthCorrect(_, _, _, _, _, _, _, _)
KnuthCorrect(m, rem, div, shift, cd, qd, borrow, n) ==
  IF borrow = 0 \/ n >= MaxCorrections THEN [m |-> m, qd |-> qd, borrow |-> borrow, n |-> n]
  ELSE Bind([l \in {KnuthAddBack(m, rem, div, shift, cd, 0, 0)} |->
         KnuthCorrect(l.m, rem, div, shift, cd, qd - 1, borrow + l.carry, n + 1)])

\* What one round of the shift loop did: the trial digit qd, the number of
\* rounds of the correction loop and the borrow it ended with.
KnuthRound(shift, qd, n, borrow) == [shift |-> shift, qd |-> qd, n |-> n, borrow |-> borrow]

\* for (shift = cx - cy; shift >= 0; shift--)
RECURSIVE KnuthShifts(_, _, _, _, _, _, _)
KnuthShifts(m, rem, div, z, cy, divisorHi, shift) ==
  IF shift < 0 THEN m
  ELSE Bind([qd \in {IF Digit(m, rem, shift + cy) # divisorHi
                      THEN CDiv(Digit(m, rem, shift + cy) * BASE
                                  + Digit(m, rem, shift + cy - 1), divisorHi)
                      ELSE BASE - 1} |->
       Bind([cd \in {bigint_count_(m, div)} |->
       Bind([l1 \in {KnuthSubtract(m, rem, div, shift, qd, cd, 0, 0, 0)} |->
       Bind([l2 \in {KnuthCorrect(l1.m, rem, div, shift, cd, qd, l1.borrow, 0)} |->
       Bind([m3 \in {SetDigit(l2.m, z, shift, l2.qd)} |->
         KnuthShifts([m3 EXCEPT !.knuth = Append(@, KnuthRound(shift, qd, l2.n, l2.borrow))],
                     rem, div, z, cy, divisorHi, shift - 1)])])])])])

\* A long division that does not normalize its operands.
NoLambda(divisorHi) == 1

\* lambda, the factor that brings the top digit of the divisor to BASE / 2 at least
KnuthLambda(divisorHi) == CDiv(BASE + 2 * divisorHi - 1, 2 * divisorHi)

bigint_div_mod(m, x, y, wantmod) ==
  Bind([cx \in {bigint_count_(m, x)} |->
  Bind([cy \in {bigint_count_(m, y)} |->
  Bind([is_neg \in {bigint_is_neg_(m, x) # bigint_is_neg_(m, y)} |->
  Bind([z \in {bigint_alloc_zero(m, cx - cy + 1, is_neg)} |->
  \* normalize
  Bind([hi0 \in {bigint_last_digit_(z.m, y)} |->
  Bind([lambda \in {KnuthLambda(hi0.r)} |->
  Bind([r1 \in {bigint_mul_small(hi0.m, x, lambda)} |->
  Bind([rem \in {IF r1.m.o[r1.r].count <= cx THEN bigint_push(r1.m, r1.r, 0) ELSE r1} |->
  Bind([d1 \in {bigint_mul_small(rem.m, y, lambda)} |->
  Bind([divisorHi \in {bigint_last_digit_(d1.m, d1.r)} |->
  Bind([div \in {bigint_push(divisorHi.m, d1.r, 0)} |->
  Bind([m1 \in {KnuthShifts(div.m, rem.r, div.r, z.r, cy, divisorHi.r, cx - cy)} |->
  Bind([m2 \in {bigint_decref(m1, div.r)} |->
  \* denormalize remainder
  Bind([pm \in {IF wantmod THEN bigint_div_mod_small(m2, rem.r, lambda)
                 ELSE DivModRet(bigint_decref(m2, rem.r), 0, 0)} |->
  Bind([t \in {bigint_trim(pm.m, z.r, TRUE)} |->
    DivModRet(t.m, t.r, pm.r)])])])])])])])])])])])])])])])

integer_div_mod_generic(m, x, y, wantmod) ==
  IF is_smallint(y) /\ y.v = 0 THEN DivModRet(m, Null, Unset)   \* raise div-by-zero
  ELSE IF is_smallint(y) /\ y.v = 1
  THEN DivModRet(m, x, IF wantmod THEN Small(0) ELSE Null)
  ELSE IF is_smallint(y) /\ y.v = -1
  THEN Bind([n \in {integer_neg(m, x)} |->
         DivModRet(n.m, n.r, IF wantmod THEN Small(0) ELSE Null)])
  ELSE IF is_smallint(y) /\ (IF y.v < 0 THEN -y.v ELSE y.v) < BASE
  THEN \* small division
       Bind([ay \in {IF y.v < 0 THEN -y.v ELSE y.v} |->
       Bind([ay_neg \in {y.v < 0} |->
       Bind([bx \in {integer_to_bigint(m, x)} |->
       Bind([xneg \in {bigint_is_neg_(bx.m, bx.r)} |->
       Bind([d \in {bigint_div_mod_small(bx.m, bx.r, ay)} |->
       Bind([imod \in {IF xneg THEN -d.mod ELSE d.mod} |->
       Bind([m1 \in {SetNeg(d.m, d.r, xneg # ay_neg)} |->
       Bind([md \in {IF wantmod THEN integer_from_int(m1, imod) ELSE Ret(m1, Null)} |->
       Bind([q \in {integer_bigint(md.m, d.r)} |->
         DivModRet(q.m, q.r, md.r)])])])])])])])])])
  ELSE Bind([bx \in {integer_to_bigint(m, x)} |->
       Bind([by \in {integer_to_bigint(bx.m, y)} |->
       Bind([cmp \in {bigint_compare_abs_(by.m, bx.r, by.r)} |->
         IF cmp < 0
         THEN DivModRet(integer_decref(IF wantmod THEN by.m ELSE integer_decref(by.m, x), y),
                        Small(0), IF wantmod THEN x ELSE Null)
         ELSE IF cmp = 0
         THEN DivModRet(integer_decref(integer_decref(by.m, x), y),
                        Small(IF bigint_is_neg_(by.m, bx.r) = bigint_is_neg_(by.m, by.r)
                              THEN 1 ELSE -1),
                        IF wantmod THEN Small(0) ELSE Null)
         ELSE Bind([qneg \in {bigint_is_neg_(by.m, bx.r) # bigint_is_neg_(by.m, by.r)} |->
              Bind([mneg \in {bigint_is_neg_(by.m, bx.r)} |->
              Bind([d \in {bigint_div_mod(by.m, bx.r, by.r, wantmod)} |->
              Bind([m1 \in {SetNeg(d.m, d.r, qneg)} |->
              Bind([md \in {IF wantmod /\ d.mod # 0
                             THEN integer_bigint(SetNeg(m1, d.mod, mneg), d.mod)
                             ELSE Ret(m1, Null)} |->
              Bind([q \in {integer_bigint(md.m, d.r)} |->
                DivModRet(q.m, q.r, md.r)])])])])])])])])])

integer_div_generic(m, x, y) ==
  Bind([d \in {integer_div_mod_generic(m, x, y, FALSE)} |->
    Ret(d.m, d.r)])

integer_mod_generic(m, x, y) ==
  Bind([d \in {integer_div_mod_generic(m, x, y, TRUE)} |->
    \* integer_t mod = 0
    Ret(integer_decref(d.m, d.r), IF d.mod = Unset THEN Null ELSE d.mod)])

\* runtime/integer.h: the inlined division of two small integers
integer_div_mod(m, x, y) ==
  IF is_smallint(x) /\ is_smallint(y) /\ y.v # 0 /\ FitsSmall(m, CDiv(x.v, y.v))
  THEN DivModRet(m, Small(CDiv(x.v, y.v)), Small(CMod(x.v, y.v)))
  ELSE integer_div_mod_generic(m, x, y, TRUE)

integer_div(m, x, y) ==
  IF is_smallint(x) /\ is_smallint(y) /\ y.v # 0 /\ FitsSmall(m, CDiv(x.v, y.v))
  THEN Ret(m, Small(CDiv(x.v, y.v)))
  ELSE integer_div_generic(m, x, y)

integer_mod(m, x, y) ==
  IF is_smallint(x) /\ is_smallint(y) /\ y.v # 0 /\ FitsSmall(m, CDiv(x.v, y.v))
  THEN Ret(m, Small(CMod(x.v, y.v)))
  ELSE integer_mod_generic(m, x, y)

----------------------------------------------------------------------------
(* Pow *)

\* runtime/integer.h
integer_is_odd(m, x) ==
  Bind([e \in {integer_is_even(m, x)} |->
    Ret(e.m, ~e.r)])

integer_dec(m, x) == integer_sub(m, x, Small(1))

\* What the loops of integer_pow hold: the base x, the product y, the exponent p.
PowState(m, x, y, p) == [m |-> m, x |-> x, y |-> y, p |-> p]

\* if (integer_is_odd(p)) { y = integer_mul(y, dup x); p = integer_dec(p); }
PowOdd(m, x, y, p) ==
  Bind([o \in {integer_is_odd(integer_incref(m, p), p)} |->
    IF o.r
    THEN Bind([y1 \in {integer_mul(integer_incref(o.m, x), y, x)} |->
         Bind([p1 \in {integer_dec(y1.m, p)} |->
           PowState(p1.m, x, y1.r, p1.r)])])
    ELSE PowState(o.m, x, y, p)])

\* while (1) of the big exponent, left when p is small
RECURSIVE PowBig(_, _, _, _)
PowBig(m, x, y, p) ==
  Bind([o \in {PowOdd(m, x, y, p)} |->
    IF is_smallint(o.p) THEN o
    ELSE Bind([p2 \in {integer_div(o.m, o.p, Small(2))} |->
         Bind([x2 \in {integer_sqr(p2.m, o.x)} |->
           PowBig(x2.m, x2.r, o.y, p2.r)])])])

\* while (1) of the machine exponent i, left when i is 0
RECURSIVE PowSmall(_, _, _, _)
PowSmall(m, x, y, i) ==
  Bind([y1 \in {IF i % 2 # 0 THEN integer_mul(integer_incref(m, x), y, x)
                 ELSE Ret(m, y)} |->
  Bind([i1 \in {IF i % 2 # 0 THEN i - 1 ELSE i} |->
    IF i1 = 0 THEN PowState(y1.m, x, y1.r, Small(0))
    ELSE Bind([x2 \in {integer_sqr(y1.m, x)} |->
           PowSmall(x2.m, x2.r, y1.r, CDiv(i1, 2))])])])

integer_pow(m, x, p) ==
  IF p = Small(0) THEN Ret(m, Small(1))
  ELSE IF x = Small(0) THEN Ret(integer_decref(m, p), Small(0))
  ELSE IF x = Small(1) THEN Ret(integer_decref(m, p), Small(1))
  ELSE IF x = Small(-1)
  THEN Bind([e \in {integer_is_even(m, p)} |->
         Ret(e.m, Small(IF e.r THEN 1 ELSE -1))])
  ELSE Bind([sg \in {integer_signum(integer_incref(m, p), p)} |->
         IF sg.r = -1 THEN Ret(integer_decref(sg.m, p), Small(0))
         ELSE Bind([l1 \in {IF is_bigint(p) THEN PowBig(sg.m, x, Small(1), p)
                             ELSE PowState(sg.m, x, Small(1), p)} |->
              Bind([l2 \in {PowSmall(l1.m, l1.x, l1.y, l1.p.v)} |->
                Ret(integer_decref(l2.m, l2.x), l2.y)])])])

----------------------------------------------------------------------------
(* To string.  A string is the sequence of its character codes; the         *)
(* terminating 0 is not part of the sequence.                               *)

Chr0 == 48         \* '0'
ChrMinus == 45     \* '-'
ChrPlus == 43      \* '+'
ChrPoint == 46     \* '.'
ChrUnder == 95     \* '_'
ChrE == 101        \* 'e'
ChrBigE == 69      \* 'E'

isdigit(c) == c >= Chr0 /\ c <= Chr0 + 9

\* for (i = n - 1; i >= 0; i--, d /= 10) buf[i] = '0' + (d % 10)
RECURSIVE FullChars(_, _)
FullChars(d, n) ==
  IF n = 0 THEN <<>> ELSE Append(FullChars(CDiv(d, 10), n - 1), Chr0 + CMod(d, 10))

digit_to_str_full(d) == FullChars(d, LOG_BASE)

\* No skipping: the leading zero characters of the top digit are kept.
KeepZeroChars(tmp, i) == i

\* while (i < LOG_BASE && tmp[i] == '0') i++
RECURSIVE SkipZeroChars(_, _)
SkipZeroChars(tmp, i) ==
  IF i < Len(tmp) /\ tmp[i + 1] = Chr0 THEN SkipZeroChars(tmp, i + 1) ELSE i

digit_to_str_partial(d) ==
  IF d = 0 THEN <<>>
  ELSE Bind([tmp \in {digit_to_str_full(d)} |->
       Bind([i \in {SkipZeroChars(tmp, 0)} |->
         SubSeq(tmp, i + 1, Len(tmp))])])

\* while (i > 0 && b->digits[i] == 0) i--
RECURSIVE SkipLeadingZeros(_, _, _)
SkipLeadingZeros(m, b, i) ==
  IF i > 0 /\ Digit(m, b, i) = 0 THEN SkipLeadingZeros(m, b, i - 1) ELSE i

\* while (i >= 0) j += digit_to_str_full(b->digits[i], &buf[j])
RECURSIVE RestChars(_, _, _)
RestChars(m, b, i) ==
  IF i < 0 THEN <<>> ELSE digit_to_str_full(Digit(m, b, i)) \o RestChars(m, b, i - 1)

bigint_to_buf_(m, b) ==
  Bind([sign \in {IF bigint_is_neg_(m, b) THEN <<ChrMinus>> ELSE <<>>} |->
  Bind([i \in {SkipLeadingZeros(m, b, bigint_count_(m, b) - 1)} |->
    IF i >= 0
    THEN sign \o digit_to_str_partial(Digit(m, b, i)) \o RestChars(m, b, i - 1)
    ELSE sign])])

bigint_to_string(m, b) == Ret(bigint_decref(m, b), bigint_to_buf_(m, b))

\* for (; i < 63 && n != 0; i++, n /= 10) buf[i] = '0' + n % 10, then reversed
RECURSIVE IntChars(_, _)
IntChars(n, i) ==
  IF i < 63 /\ n # 0 THEN Append(IntChars(CDiv(n, 10), i + 1), Chr0 + CMod(n, 10)) ELSE <<>>

int_to_string(n) ==
  IF n = 0 THEN <<Chr0>>
  ELSE IF n < 0 THEN <<ChrMinus>> \o IntChars(-n, 0)
  ELSE IntChars(n, 0)

integer_to_string(m, x) ==
  IF is_smallint(x) THEN Ret(m, int_to_string(x.v))
  ELSE Bind([b \in {integer_to_bigint(m, x)} |->
         bigint_to_string(b.m, b.r)])

----------------------------------------------------------------------------
(* Parse an integer *)

\* s[i]: the terminator follows the last character
CharAt(s, i) == IF i < Len(s) THEN s[i + 1] ELSE 0

\* significant: for (; s[i] != 0; i++)
RECURSIVE ScanSig(_, _, _)
ScanSig(s, i, sig) ==
  LET c == CharAt(s, i)
  IN IF c = 0 THEN [ok |-> TRUE, i |-> i, n |-> sig]
     ELSE IF isdigit(c) THEN ScanSig(s, i + 1, sig + 1)
     ELSE IF c = ChrUnder /\ isdigit(CharAt(s, i + 1)) THEN ScanSig(s, i + 1, sig)
     ELSE IF c \in {ChrPoint, ChrE, ChrBigE} /\ isdigit(CharAt(s, i + 1))
     THEN [ok |-> TRUE, i |-> i, n |-> sig]
     ELSE [ok |-> FALSE, i |-> i, n |-> sig]

\* fraction: for (; s[i] != 0; i++)
RECURSIVE ScanFrac(_, _, _)
ScanFrac(s, i, frac) ==
  LET c == CharAt(s, i)
  IN IF c = 0 THEN [ok |-> TRUE, i |-> i, n |-> frac]
     ELSE IF isdigit(c) THEN ScanFrac(s, i + 1, frac + 1)
     ELSE IF c = ChrUnder /\ isdigit(CharAt(s, i + 1)) THEN ScanFrac(s, i + 1, frac)
     ELSE IF c \in {ChrE, ChrBigE} /\ isdigit(CharAt(s, i + 1)) /\ CharAt(s, i + 1) # Chr0
     THEN [ok |-> TRUE, i |-> i, n |-> frac]
     ELSE [ok |-> FALSE, i |-> i, n |-> frac]

\* exponent: for (; s[i] != 0; i++)
RECURSIVE ScanExp(_, _, _)
ScanExp(s, i, exp) ==
  LET c == CharAt(s, i)
  IN IF c = 0 THEN [ok |-> TRUE, i |-> i, n |-> exp]
     ELSE IF isdigit(c)
     THEN IF 10 * exp + (c - Chr0) > BASE THEN [ok |-> FALSE, i |-> i, n |-> exp]
          ELSE ScanExp(s, i + 1, 10 * exp + (c - Chr0))
     ELSE [ok |-> FALSE, i |-> i, n |-> exp]

\* for (p = s; p < end; p++) if (isdigit(c)) d = 10*d + (c - '0')
RECURSIVE ReadInt(_, _, _, _)
ReadInt(s, end, p, d) ==
  IF p >= end THEN d
  ELSE IF isdigit(CharAt(s, p)) THEN ReadInt(s, end, p + 1, 10 * d + (CharAt(s, p) - Chr0))
  ELSE ReadInt(s, end, p + 1, d)

\* read a full digit: for (j = 0; j < chunk; )
RECURSIVE ReadChunk(_, _, _, _, _, _)
ReadChunk(s, end, p, chunk, j, d) ==
  IF j >= chunk THEN [p |-> p, d |-> d]
  ELSE LET c == IF p < end THEN CharAt(s, p) ELSE Chr0
           p1 == IF p < end THEN p + 1 ELSE p
       IN IF isdigit(c) THEN ReadChunk(s, end, p1, chunk, j + 1, 10 * d + (c - Chr0))
          ELSE ReadChunk(s, end, p1, chunk, j, d)

\* while (p < end): read a digit and store it
RECURSIVE ReadDigits(_, _, _, _, _, _, _)
ReadDigits(m, s, end, b, p, k, chunk) ==
  IF p >= end THEN [m |-> m, k |-> k]
  ELSE LET r == ReadChunk(s, end, p, chunk, 0, 0)
       IN IF k > 0
          THEN ReadDigits(SetDigit(m, b, k - 1, r.d), s, end, b, r.p, k - 1, LOG_BASE)
          ELSE ReadDigits(m, s, end, b, r.p, k, LOG_BASE)

\* No final zeros: the digits below the ones read stay unwritten.
NoFinalZeros(m, b, j, k) == m

\* set the final zeros: for (j = 0; j < k; j++) b->digits[j] = 0
RECURSIVE FinalZeros(_, _, _, _)
FinalZeros(m, b, j, k) ==
  IF j >= k THEN m ELSE FinalZeros(SetDigit(m, b, j, 0), b, j + 1, k)

integer_parse(m, s) ==
  Bind([is_neg \in {CharAt(s, 0) = ChrMinus} |->
  Bind([i0 \in {IF CharAt(s, 0) \in {ChrPlus, ChrMinus} THEN 1 ELSE 0} |->
    IF ~isdigit(CharAt(s, i0)) THEN Ret(m, Null)       \* must start with a digit
    ELSE
    Bind([sg \in {ScanSig(s, i0, 0)} |->
    Bind([fr \in {IF sg.ok /\ CharAt(s, sg.i) = ChrPoint THEN ScanFrac(s, sg.i + 1, 0)
                   ELSE [ok |-> sg.ok, i |-> sg.i, n |-> 0]} |->
    Bind([end \in {fr.i} |->
    Bind([ex \in {IF fr.ok /\ CharAt(s, fr.i) \in {ChrE, ChrBigE} THEN ScanExp(s, fr.i + 1, 0)
                   ELSE [ok |-> fr.ok, i |-> fr.i, n |-> 0]} |->
      IF ~sg.ok \/ ~fr.ok \/ ~ex.ok THEN Ret(m, Null)
      ELSE IF ex.n < fr.n THEN Ret(m, Null)            \* fractional number
      ELSE
      Bind([zero_digits \in {ex.n - fr.n} |->
      Bind([dec_digits \in {sg.n + fr.n + zero_digits} |->
        IF dec_digits < LOG_BASE
        THEN Bind([d \in {ReadInt(s, end, 0, 0) * 10 ^ zero_digits} |->
               integer_from_int(m, IF is_neg THEN -d ELSE d)])
        ELSE Bind([count \in {(dec_digits + (LOG_BASE - 1)) \div LOG_BASE} |->
             Bind([b \in {bigint_alloc(m, count, is_neg)} |->
             Bind([chunk \in {IF dec_digits % LOG_BASE = 0 THEN LOG_BASE
                               ELSE dec_digits % LOG_BASE} |->
             Bind([l \in {ReadDigits(b.m, s, end, b.r, 0, count, chunk)} |->
             Bind([m2 \in {FinalZeros(l.m, b.r, 0, l.k)} |->
               integer_bigint(m2, b.r)])])])])])])])])])])])])])

----------------------------------------------------------------------------
(* Count trailing zeros, count digits, mul_pow10, div_pow10 *)

\* for (; x != 0 && (x % 10) == 0; x /= 10) count++
RECURSIVE int_ctz(_)
int_ctz(x) == IF x # 0 /\ CMod(x, 10) = 0 THEN 1 + int_ctz(CDiv(x, 10)) ELSE 0

\* for (i = 0; i < (x->count - 1); i++) if (x->digits[i] != 0) break
\* The bound is a size_t: with count 0 it wraps to the largest one, and the loop
\* ends at a nonzero digit only, inside the allocation or past it.
RECURSIVE FirstNonZero(_, _, _)
FirstNonZero(m, x, i) ==
  IF /\ bigint_count_(m, x) = 0 \/ i < bigint_count_(m, x) - 1
     /\ i < m.o[x].cap
     /\ Digit(m, x, i) = 0
  THEN FirstNonZero(m, x, i + 1)
  ELSE i

bigint_ctz(m, x) ==
  Bind([i \in {FirstNonZero(m, x, 0)} |->
  Bind([ctz \in {int_ctz(Digit(m, x, i)) + LOG_BASE * i} |->
    Ret(bigint_decref(Fetch(m, x, i), x), ctz)])])

integer_ctz(m, x) ==
  IF is_smallint(x) THEN Ret(m, Small(int_ctz(x.v)))
  ELSE Bind([b \in {integer_to_bigint(m, x)} |->
       Bind([c \in {bigint_ctz(b.m, b.r)} |->
         integer_from_int(c.m, c.r)])])

\* The decision tree over an unsigned digit: its number of decimal digits,
\* LOG_BASE + 1 from the base on.
RECURSIVE DecimalLength(_)
DecimalLength(x) == IF x < 10 THEN 1 ELSE 1 + DecimalLength(x \div 10)

count_digits32(x) ==
  IF x < 0 \/ x >= BASE THEN LOG_BASE + 1 ELSE DecimalLength(x)

\* do { count += count_digits32(u % BASE); u /= BASE; } while (u > 0)
RECURSIVE CountChunks(_)
CountChunks(u) ==
  count_digits32(u % BASE) + (IF u \div BASE > 0 THEN CountChunks(u \div BASE) ELSE 0)

int_count_digits(x) == CountChunks(IF x < 0 THEN -x ELSE x)

bigint_count_digits(m, x) ==
  Bind([hi \in {bigint_last_digit_(m, x)} |->
    Ret(hi.m, count_digits32(hi.r) + LOG_BASE * (bigint_count_(m, x) - 1))])

integer_count_digits(m, x) ==
  IF is_smallint(x) THEN Ret(m, Small(int_count_digits(x.v)))
  ELSE Bind([b \in {integer_to_bigint(m, x)} |->
       Bind([n \in {bigint_count_digits(b.m, b.r)} |->
         integer_from_int(n.m, n.r)])])

powers_of_10(i) == 10 ^ i

RECURSIVE integer_mul_pow10(_, _, _)
RECURSIVE integer_div_pow10(_, _, _)

integer_mul_pow10(m, x, p) ==
  IF p = Small(0) THEN Ret(integer_decref(m, p), x)
  ELSE IF x = Small(0) THEN Ret(integer_decref(m, p), Small(0))
  ELSE IF ~is_smallint(p) THEN Ret(m, Small(0))
  ELSE IF p.v < 0 THEN integer_div_pow10(m, x, Small(-p.v))
  ELSE IF is_smallint(x) /\ p.v < LOG_BASE
  THEN Bind([t \in {integer_from_int(m, powers_of_10(p.v))} |->
         integer_mul(t.m, x, t.r)])
  ELSE Bind([large \in {p.v \div LOG_BASE} |->
       Bind([small \in {p.v % LOG_BASE} |->
       Bind([b0 \in {integer_to_bigint(m, x)} |->
       Bind([b \in {IF small > 0 THEN bigint_mul_small(b0.m, b0.r, powers_of_10(small)) ELSE b0} |->
         IF large > 0
         THEN Bind([bcount \in {bigint_count_(b.m, b.r)} |->
              Bind([ccount \in {bcount + large} |->
              Bind([c \in {bigint_alloc_reuse_(b.m, b.r, ccount)} |->
              Bind([m1 \in {CopyDigits(c.m, c.r, large, b.r, 0, bcount)} |->
              Bind([m2 \in {ZeroDigits(m1, c.r, large)} |->
              Bind([m3 \in {IF b.r # c.r THEN bigint_decref(m2, b.r) ELSE m2} |->
                integer_bigint(m3, c.r)])])])])])])
         ELSE integer_bigint(b.m, b.r)])])])])

\* What the shift of integer_div_pow10 did: it moved n digits from the index
\* large on, out of a BigInt of bcount digits into one of cap digit slots, and
\* left a BigInt of count digits, of the sign of the source or not.
ShiftMove(large, n, bcount, cap, count, signed) ==
  [large |-> large, n |-> n, bcount |-> bcount, cap |-> cap, count |-> count,
   signed |-> signed]

integer_div_pow10(m, x, p) ==
  IF p = Small(0) THEN Ret(integer_decref(m, p), x)
  ELSE IF x = Small(0) THEN Ret(integer_decref(m, p), Small(0))
  ELSE IF ~is_smallint(p) THEN Ret(m, Small(0))
  ELSE IF p.v < 0 THEN integer_mul_pow10(m, x, Small(-p.v))
  ELSE IF is_smallint(x) /\ p.v < LOG_BASE
  THEN Bind([t \in {integer_from_int(m, powers_of_10(p.v))} |->
         integer_div(t.m, x, t.r)])
  ELSE Bind([large \in {p.v \div LOG_BASE} |->
       Bind([small \in {p.v % LOG_BASE} |->
       Bind([b0 \in {integer_to_bigint(m, x)} |->
       Bind([bcount \in {bigint_count_(b0.m, b0.r)} |->
         IF large > 0 /\ large >= bcount
         THEN Ret(bigint_decref(b0.m, b0.r), Small(0))
         ELSE
         Bind([ccount \in {bcount - large} |->
         Bind([unique \in {bigint_is_unique_(b0.m, b0.r)} |->
         Bind([b1 \in {IF large <= 0 THEN b0
                        ELSE IF unique
                        THEN bigint_trim_to(CopyDigits(b0.m, b0.r, 0, b0.r, large, ccount),
                                            b0.r, ccount, TRUE)
                        ELSE Bind([c \in {bigint_alloc(b0.m, ccount, bigint_is_neg_(b0.m, b0.r))} |->
                               Ret(bigint_decref(CopyDigits(c.m, c.r, 0, b0.r, large, bcount),
                                                 b0.r), c.r)])} |->
         Bind([b \in {IF large <= 0 THEN b1
                       ELSE Ret([b1.m EXCEPT !.move =
                                   Append(@, ShiftMove(large, IF unique THEN ccount ELSE bcount,
                                                       bcount, b1.m.o[b1.r].cap,
                                                       b1.m.o[b1.r].count,
                                                       b1.m.o[b1.r].neg = b0.m.o[b0.r].neg))],
                                b1.r)} |->
         Bind([d \in {IF small > 0 THEN bigint_div_mod_small(b.m, b.r, powers_of_10(small))
                       ELSE DivModRet(b.m, b.r, 0)} |->
           integer_bigint(d.m, d.r)])])])])])])])])])

----------------------------------------------------------------------------
(* The caller.  An operation is applied to integers the caller owns: a      *)
(* small integer, or a canonical BigInt of which the caller may keep a      *)
(* reference of its own (the operation then sees it shared).                *)

DigitChoices == {0, 1, BASE - 1}

\* Canonical magnitudes: little-endian digits, no zero top digit, zero as <<0>>.
Magnitudes(n) ==
  {ds \in UNION {[1..k -> DigitChoices] : k \in 1..n} : Len(ds) = 1 \/ ds[Len(ds)] # 0}

RECURSIVE MagValue(_, _)
MagValue(ds, n) == IF n = 0 THEN 0 ELSE ds[n] * BASE ^ (n - 1) + MagValue(ds, n - 1)

\* An operand: a magnitude and a sign, zero never negative.
Operands(n) ==
  {[neg |-> s, ds |-> ds] : s \in BOOLEAN, ds \in Magnitudes(n)}
    \ {[neg |-> TRUE, ds |-> <<0>>]}

OperandValue(a) == IF a.neg THEN -MagValue(a.ds, Len(a.ds)) ELSE MagValue(a.ds, Len(a.ds))

\* An operand is passed as a small integer when its value is in the small range.
IsSmallOperand(smax, a) ==
  Len(a.ds) <= 2 /\ OperandValue(a) >= -smax - 1 /\ OperandValue(a) <= smax

\* A BigInt holding the operand, with rc references.
NewBig(m, a, rc) ==
  Bind([n \in {Len(a.ds)} |->
  Bind([b \in {bigint_alloc(m, n, a.neg)} |->
    Ret([b.m EXCEPT !.o[b.r].d = [i \in 1..b.m.o[b.r].cap |->
                                    IF i <= n THEN a.ds[i] ELSE @[i]],
                    !.o[b.r].rc = rc], b.r)])])

NewInteger(m, a, rc) ==
  IF IsSmallOperand(m.smax, a) THEN Ret(m, Small(OperandValue(a)))
  ELSE Bind([b \in {NewBig(m, a, rc)} |->
         Ret(b.m, Big(b.r))])

\* How the caller shares the arguments of a binary operation: rc[i] is the
\* number of references to argument i when the call starts, one of which the
\* call consumes; alias: both arguments are the same BigInt.
Sharings ==
  {[rc |-> rc, alias |-> FALSE] : rc \in {<<1, 1>>, <<2, 1>>, <<1, 2>>, <<2, 2>>}}
    \cup {[rc |-> <<1, 1>>, alias |-> TRUE]}

SharingFits(smax, a, b, sh) ==
  /\ IsSmallOperand(smax, a) => sh.rc[1] = 1 /\ ~sh.alias
  /\ IsSmallOperand(smax, b) => sh.rc[2] = 1
  /\ sh.alias => a = b

Args2(smax, junk, a, b, sh) ==
  Bind([x \in {NewInteger(Machine(smax, junk), a, IF sh.alias THEN 2 ELSE sh.rc[1])} |->
  Bind([y \in {IF sh.alias THEN x ELSE NewInteger(x.m, b, sh.rc[2])} |->
    [m |-> y.m, x |-> x.r, y |-> y.r]])])

\* Results that are not integers: a string, a machine integer or boolean.
Str(s) == [t |-> "str", v |-> s]
Raw(i) == [t |-> "raw", v |-> i]

\* In the place of a result: the call faulted and returned nothing.
Fault == [t |-> "fault", v |-> 0]

\* The record of a call: the operation, its inputs as the caller chose them,
\* the integers passed, their reference counts and the heap at the call.
Call(op, ins, args, rc, heap) ==
  [op |-> op, in |-> ins, args |-> args, rc |-> rc, heap |-> heap]

\* What an operation leaves behind: the machine state, the call and the results.
Outcome(m, c, r) == [m |-> [m EXCEPT !.junk = 0], call |-> c, ret |-> r]

Idle == call.op = "idle"

Init ==
  /\ st \in {Machine(s, 0) : s \in SmallMaxChoices}
  /\ call = [op |-> "idle"]
  /\ ret = <<>>

\* The caller drops what the last operation returned and starts afresh.
Return ==
  /\ ~Idle
  /\ st' = Machine(st.smax, 0)
  /\ call' = [op |-> "idle"]
  /\ ret' = <<>>

\* An access outside an allocation is undefined behaviour: the call either goes
\* on with whatever the access yields, or the access faults and the call returns
\* nothing.
Finish(out) ==
  \E fault \in (IF out.m.oob THEN BOOLEAN ELSE {FALSE}) :
    /\ st' = out.m
    /\ call' = out.call
    /\ ret' = IF fault THEN [i \in DOMAIN out.ret |-> Fault] ELSE out.ret

RunAdd(smax, a, b, sh, junk) ==
  Bind([g \in {Args2(smax, junk, a, b, sh)} |->
  Bind([r \in {integer_add(g.m, g.x, g.y)} |->
    Outcome(r.m, Call("add", <<a, b>>, <<g.x, g.y>>, sh.rc, g.m.o), <<r.r>>)])])

RunSub(smax, a, b, sh, junk) ==
  Bind([g \in {Args2(smax, junk, a, b, sh)} |->
  Bind([r \in {integer_sub(g.m, g.x, g.y)} |->
    Outcome(r.m, Call("sub", <<a, b>>, <<g.x, g.y>>, sh.rc, g.m.o), <<r.r>>)])])

\* add(x, neg(x)): the caller keeps rc - 1 references to x, negates a duplicate
RunAddNeg(smax, a, rc, junk) ==
  Bind([x \in {NewInteger(Machine(smax, junk), a, rc + 1)} |->
  Bind([n \in {integer_neg(x.m, x.r)} |->
  Bind([r \in {integer_add(n.m, x.r, n.r)} |->
    Outcome(r.m, Call("add_neg", <<a>>, <<x.r, x.r>>, <<rc, 1>>, x.m.o),
            <<r.r>>)])])])

DoAdd ==
  /\ Idle
  /\ \E a \in Operands(MaxCount), b \in Operands(MaxCount), sh \in Sharings, junk \in JunkSet :
       /\ SharingFits(st.smax, a, b, sh)
       /\ \E out \in {RunAdd(st.smax, a, b, sh, junk)} : Finish(out)

DoSub ==
  /\ Idle
  /\ \E a \in Operands(MaxCount), b \in Operands(MaxCount), sh \in Sharings, junk \in JunkSet :
       /\ SharingFits(st.smax, a, b, sh)
       /\ \E out \in {RunSub(st.smax, a, b, sh, junk)} : Finish(out)

DoAddNeg ==
  /\ Idle
  /\ \E a \in Operands(MaxCount), rc \in 1..2, junk \in JunkSet :
       /\ IsSmallOperand(st.smax, a) => rc = 1
       /\ \E out \in {RunAddNeg(st.smax, a, rc, junk)} : Finish(out)

\* Both multiplications on the same operands, each on its own copy of them.
MulDigitChoices == {0, BASE - 1}

MulOperands ==
  {[neg |-> s, ds |-> ds] : s \in BOOLEAN,
     ds \in {ds \in UNION {[1..k -> MulDigitChoices] : k \in 1..MaxMulCount} :
               ds[Len(ds)] # 0}}

RunMulBoth(smax, a, b, junk) ==
  Bind([x1 \in {NewBig(Machine(smax, junk), a, 1)} |->
  Bind([y1 \in {NewBig(x1.m, b, 1)} |->
  Bind([k \in {bigint_mul_karatsuba(y1.m, x1.r, y1.r)} |->
  Bind([x2 \in {NewBig(k.m, a, 1)} |->
  Bind([y2 \in {NewBig(x2.m, b, 1)} |->
  Bind([s \in {bigint_mul(y2.m, x2.r, y2.r)} |->
    Outcome(s.m, Call("mul_both", <<a, b>>, <<Big(x1.r), Big(y1.r), Big(x2.r), Big(y2.r)>>,
                      <<1, 1, 1, 1>>, y2.m.o),
            <<Big(k.r), Big(s.r)>>)])])])])])])

DoMulBoth ==
  /\ Idle
  /\ \E a \in MulOperands, b \in MulOperands, junk \in JunkSet :
       \E out \in {RunMulBoth(st.smax, a, b, junk)} : Finish(out)

\* bigint_add_abs and bigint_sub_abs on two BigInts, |x| >= |y|, that the
\* caller shares as sh tells; x and y are one BigInt when sh.alias.
AbsOperands == {a \in Operands(MaxAbsCount) : ~a.neg /\ a.ds # <<0>>}

RunAbs(smax, a, b, sh, op, junk) ==
  Bind([x \in {NewBig(Machine(smax, junk), a, IF sh.alias THEN 2 ELSE sh.rc[1])} |->
  Bind([y \in {IF sh.alias THEN x ELSE NewBig(x.m, b, sh.rc[2])} |->
  Bind([r \in {IF op = "add_abs" THEN bigint_add_abs(y.m, x.r, y.r)
                ELSE bigint_sub_abs(y.m, x.r, y.r)} |->
    Outcome(r.m, Call(op, <<a, b>>, <<Big(x.r), Big(y.r)>>, sh.rc, y.m.o), <<Big(r.r)>>)])])])

DoAbs ==
  /\ Idle
  /\ \E a \in AbsOperands, b \in AbsOperands, sh \in Sharings,
        op \in {"add_abs", "sub_abs"}, junk \in JunkSet :
       /\ Len(a.ds) >= Len(b.ds)
       /\ OperandValue(a) >= OperandValue(b)
       /\ sh.alias => a = b
       /\ \E out \in {RunAbs(st.smax, a, b, sh, op, junk)} : Finish(out)

RunMul(smax, a, b, sh, junk) ==
  Bind([g \in {Args2(smax, junk, a, b, sh)} |->
  Bind([r \in {integer_mul(g.m, g.x, g.y)} |->
    Outcome(r.m, Call("mul", <<a, b>>, <<g.x, g.y>>, sh.rc, g.m.o), <<r.r>>)])])

DoMul ==
  /\ Idle
  /\ \E a \in Operands(MaxCount), b \in Operands(MaxCount), sh \in Sharings, junk \in JunkSet :
       /\ SharingFits(st.smax, a, b, sh)
       /\ \E out \in {RunMul(st.smax, a, b, sh, junk)} : Finish(out)

\* The caller's variable for the remainder was never written before the call:
\* it holds the bits of the null box or of some small integer.
Leftover(junk) == IF junk = 0 THEN Null ELSE Small(junk)

\* div_mod returns the quotient and the remainder; a zero divisor raises.
RunDivMod(smax, a, b, sh, junk) ==
  Bind([g \in {Args2(smax, junk, a, b, sh)} |->
  Bind([d \in {integer_div_mod(g.m, g.x, g.y)} |->
    Outcome(d.m, Call("div_mod", <<a, b>>, <<g.x, g.y>>, sh.rc, g.m.o),
            <<d.r, IF d.mod = Unset THEN Leftover(junk) ELSE d.mod>>)])])

DoDivMod ==
  /\ Idle
  /\ \E a \in Operands(MaxCount), b \in Operands(MaxCount), sh \in Sharings, junk \in JunkSet :
       /\ SharingFits(st.smax, a, b, sh)
       /\ \E out \in {RunDivMod(st.smax, a, b, sh, junk)} : Finish(out)

\* The operands of a long division: digits at the ends and in the middle of the
\* range, the divisor shorter than the longest dividend.
KnuthDigits == {0, 1, BASE \div 2, BASE - 1}

KnuthOperands(n) ==
  {[neg |-> FALSE, ds |-> ds] :
     ds \in {d \in UNION {[1..k -> KnuthDigits] : k \in 1..n} : d[Len(d)] # 0}}

RunLongDiv(smax, a, b, junk) ==
  Bind([g \in {Args2(smax, junk, a, b, [rc |-> <<1, 1>>, alias |-> FALSE])} |->
  Bind([d \in {integer_div_mod(g.m, g.x, g.y)} |->
    Outcome(d.m, Call("long_div", <<a, b>>, <<g.x, g.y>>, <<1, 1>>, g.m.o),
            <<d.r, d.mod>>)])])

DoLongDiv ==
  /\ Idle
  /\ \E a \in KnuthOperands(MaxLongCount), b \in KnuthOperands(MaxLongCount - 1),
        junk \in JunkSet :
       \E out \in {RunLongDiv(st.smax, a, b, junk)} : Finish(out)

RunDiv(smax, a, b, sh, junk) ==
  Bind([g \in {Args2(smax, junk, a, b, sh)} |->
  Bind([r \in {integer_div(g.m, g.x, g.y)} |->
    Outcome(r.m, Call("div", <<a, b>>, <<g.x, g.y>>, sh.rc, g.m.o), <<r.r>>)])])

DoDiv ==
  /\ Idle
  /\ \E a \in Operands(MaxCount), b \in Operands(MaxCount), sh \in Sharings, junk \in JunkSet :
       /\ SharingFits(st.smax, a, b, sh)
       /\ \E out \in {RunDiv(st.smax, a, b, sh, junk)} : Finish(out)

RunMod(smax, a, b, sh, junk) ==
  Bind([g \in {Args2(smax, junk, a, b, sh)} |->
  Bind([r \in {integer_mod(g.m, g.x, g.y)} |->
    Outcome(r.m, Call("mod", <<a, b>>, <<g.x, g.y>>, sh.rc, g.m.o), <<r.r>>)])])

DoMod ==
  /\ Idle
  /\ \E a \in Operands(MaxCount), b \in Operands(MaxCount), sh \in Sharings, junk \in JunkSet :
       /\ SharingFits(st.smax, a, b, sh)
       /\ \E out \in {RunMod(st.smax, a, b, sh, junk)} : Finish(out)

\* The operations on one integer, of which the caller holds rc references.
RunNeg(smax, a, rc, junk) ==
  Bind([x \in {NewInteger(Machine(smax, junk), a, rc)} |->
  Bind([r \in {integer_neg(x.m, x.r)} |->
    Outcome(r.m, Call("neg", <<a>>, <<x.r>>, <<rc>>, x.m.o), <<r.r>>)])])

DoNeg ==
  /\ Idle
  /\ \E a \in Operands(MaxCount), rc \in 1..2, junk \in JunkSet :
       /\ IsSmallOperand(st.smax, a) => rc = 1
       /\ \E out \in {RunNeg(st.smax, a, rc, junk)} : Finish(out)

RunSqr(smax, a, rc, junk) ==
  Bind([x \in {NewInteger(Machine(smax, junk), a, rc)} |->
  Bind([r \in {integer_sqr(x.m, x.r)} |->
    Outcome(r.m, Call("sqr", <<a>>, <<x.r>>, <<rc>>, x.m.o), <<r.r>>)])])

DoSqr ==
  /\ Idle
  /\ \E a \in Operands(MaxCount), rc \in 1..2, junk \in JunkSet :
       /\ IsSmallOperand(st.smax, a) => rc = 1
       /\ \E out \in {RunSqr(st.smax, a, rc, junk)} : Finish(out)

RunSignum(smax, a, rc, junk) ==
  Bind([x \in {NewInteger(Machine(smax, junk), a, rc)} |->
  Bind([r \in {integer_signum(x.m, x.r)} |->
    Outcome(r.m, Call("signum", <<a>>, <<x.r>>, <<rc>>, x.m.o), <<Raw(r.r)>>)])])

DoSignum ==
  /\ Idle
  /\ \E a \in Operands(MaxCount), rc \in 1..2, junk \in JunkSet :
       /\ IsSmallOperand(st.smax, a) => rc = 1
       /\ \E out \in {RunSignum(st.smax, a, rc, junk)} : Finish(out)

RunIsEven(smax, a, rc, junk) ==
  Bind([x \in {NewInteger(Machine(smax, junk), a, rc)} |->
  Bind([r \in {integer_is_even(x.m, x.r)} |->
    Outcome(r.m, Call("is_even", <<a>>, <<x.r>>, <<rc>>, x.m.o), <<Raw(r.r)>>)])])

DoIsEven ==
  /\ Idle
  /\ \E a \in Operands(MaxCount), rc \in 1..2, junk \in JunkSet :
       /\ IsSmallOperand(st.smax, a) => rc = 1
       /\ \E out \in {RunIsEven(st.smax, a, rc, junk)} : Finish(out)

RunCountDigits(smax, a, rc, junk) ==
  Bind([x \in {NewInteger(Machine(smax, junk), a, rc)} |->
  Bind([r \in {integer_count_digits(x.m, x.r)} |->
    Outcome(r.m, Call("count_digits", <<a>>, <<x.r>>, <<rc>>, x.m.o), <<r.r>>)])])

DoCountDigits ==
  /\ Idle
  /\ \E a \in Operands(MaxCount), rc \in 1..2, junk \in JunkSet :
       /\ IsSmallOperand(st.smax, a) => rc = 1
       /\ \E out \in {RunCountDigits(st.smax, a, rc, junk)} : Finish(out)

RunCtz(smax, a, rc, junk) ==
  Bind([x \in {NewInteger(Machine(smax, junk), a, rc)} |->
  Bind([r \in {integer_ctz(x.m, x.r)} |->
    Outcome(r.m, Call("ctz", <<a>>, <<x.r>>, <<rc>>, x.m.o), <<r.r>>)])])

DoCtz ==
  /\ Idle
  /\ \E a \in Operands(MaxCount), rc \in 1..2, junk \in JunkSet :
       /\ IsSmallOperand(st.smax, a) => rc = 1
       /\ \E out \in {RunCtz(st.smax, a, rc, junk)} : Finish(out)

\* count_digits or ctz of the integer that add(a, b) returns.
RunDigitsOfSum(smax, a, b, op, junk) ==
  Bind([g \in {Args2(smax, junk, a, b, [rc |-> <<1, 1>>, alias |-> FALSE])} |->
  Bind([x \in {integer_add(g.m, g.x, g.y)} |->
  Bind([r \in {IF op = "ctz_add" THEN integer_ctz(x.m, x.r)
                ELSE integer_count_digits(x.m, x.r)} |->
    Outcome(r.m, Call(op, <<a, b>>, <<g.x, g.y>>, <<1, 1>>, g.m.o), <<r.r>>)])])])

DoDigitsOfSum ==
  /\ Idle
  /\ \E a \in Operands(MaxCount), b \in Operands(MaxCount),
        op \in {"ctz_add", "count_digits_add"}, junk \in JunkSet :
       \E out \in {RunDigitsOfSum(st.smax, a, b, op, junk)} : Finish(out)

RunToString(smax, a, rc, junk) ==
  Bind([x \in {NewInteger(Machine(smax, junk), a, rc)} |->
  Bind([r \in {integer_to_string(x.m, x.r)} |->
    Outcome(r.m, Call("to_string", <<a>>, <<x.r>>, <<rc>>, x.m.o), <<Str(r.r)>>)])])

DoToString ==
  /\ Idle
  /\ \E a \in Operands(MaxCount), rc \in 1..2, junk \in JunkSet :
       /\ IsSmallOperand(st.smax, a) => rc = 1
       /\ \E out \in {RunToString(st.smax, a, rc, junk)} : Finish(out)

\* to_string(x), then parse of the string it returned
RunRoundTrip(smax, a, rc, junk) ==
  Bind([x \in {NewInteger(Machine(smax, junk), a, rc)} |->
  Bind([t \in {integer_to_string(x.m, x.r)} |->
  Bind([r \in {integer_parse(t.m, t.r)} |->
    Outcome(r.m, Call("round_trip", <<a>>, <<x.r>>, <<rc>>, x.m.o),
            <<Str(t.r), r.r>>)])])])

DoRoundTrip ==
  /\ Idle
  /\ \E a \in Operands(MaxCount), rc \in 1..2, junk \in JunkSet :
       /\ IsSmallOperand(st.smax, a) => rc = 1
       /\ \E out \in {RunRoundTrip(st.smax, a, rc, junk)} : Finish(out)

RunCmp(smax, a, b, sh, junk) ==
  Bind([g \in {Args2(smax, junk, a, b, sh)} |->
  Bind([r \in {integer_cmp(g.m, g.x, g.y)} |->
    Outcome(r.m, Call("cmp", <<a, b>>, <<g.x, g.y>>, sh.rc, g.m.o), <<Raw(r.r)>>)])])

DoCmp ==
  /\ Idle
  /\ \E a \in Operands(MaxCount), b \in Operands(MaxCount), sh \in Sharings, junk \in JunkSet :
       /\ SharingFits(st.smax, a, b, sh)
       /\ \E out \in {RunCmp(st.smax, a, b, sh, junk)} : Finish(out)

\* cmp(a, b) on fresh arguments, in a heap where earlier calls have run.
CmpOf(m, a, b) ==
  Bind([x \in {NewInteger(m, a, 1)} |->
  Bind([y \in {NewInteger(x.m, b, 1)} |->
    integer_cmp(y.m, x.r, y.r)])])

\* The four comparisons cmp(a, b), cmp(b, a), cmp(b, c), cmp(a, c), one after
\* the other.
RunCmpChain(smax, a, b, c, junk) ==
  Bind([xy \in {CmpOf(Machine(smax, junk), a, b)} |->
  Bind([yx \in {CmpOf(xy.m, b, a)} |->
  Bind([yz \in {CmpOf(yx.m, b, c)} |->
  Bind([xz \in {CmpOf(yz.m, a, c)} |->
    Outcome(xz.m, Call("cmp_chain", <<a, b, c>>, <<>>, <<1, 1, 1>>, <<>>),
            <<Raw(xy.r), Raw(yx.r), Raw(yz.r), Raw(xz.r)>>)])])])])

\* The operands of a chain of comparisons: of every count and sign, the digits
\* below the top one alike.
ChainOperands ==
  {a \in Operands(MaxCount) : \A i \in 1..(Len(a.ds) - 1) : a.ds[i] = a.ds[1]}

DoCmpChain ==
  /\ Idle
  /\ \E a \in ChainOperands, b \in ChainOperands, c \in ChainOperands, junk \in JunkSet :
       \E out \in {RunCmpChain(st.smax, a, b, c, junk)} : Finish(out)

\* The decimal scales of mul_pow10 and div_pow10: small ones of either sign,
\* and one that is a BigInt.
ScaleOperands ==
  ({[neg |-> s, ds |-> <<d>>] : s \in BOOLEAN, d \in 0..MaxScale}
     \ {[neg |-> TRUE, ds |-> <<0>>]})
    \cup {[neg |-> FALSE, ds |-> <<0, BASE - 1>>]}

RunMulPow10(smax, a, p, sh, junk) ==
  Bind([g \in {Args2(smax, junk, a, p, sh)} |->
  Bind([r \in {integer_mul_pow10(g.m, g.x, g.y)} |->
    Outcome(r.m, Call("mul_pow10", <<a, p>>, <<g.x, g.y>>, sh.rc, g.m.o), <<r.r>>)])])

DoMulPow10 ==
  /\ Idle
  /\ \E a \in Operands(MaxScaleCount), p \in ScaleOperands, sh \in Sharings, junk \in JunkSet :
       /\ SharingFits(st.smax, a, p, sh)
       /\ \E out \in {RunMulPow10(st.smax, a, p, sh, junk)} : Finish(out)

RunDivPow10(smax, a, p, sh, junk) ==
  Bind([g \in {Args2(smax, junk, a, p, sh)} |->
  Bind([r \in {integer_div_pow10(g.m, g.x, g.y)} |->
    Outcome(r.m, Call("div_pow10", <<a, p>>, <<g.x, g.y>>, sh.rc, g.m.o), <<r.r>>)])])

DoDivPow10 ==
  /\ Idle
  /\ \E a \in Operands(MaxScaleCount), p \in ScaleOperands, sh \in Sharings, junk \in JunkSet :
       /\ SharingFits(st.smax, a, p, sh)
       /\ \E out \in {RunDivPow10(st.smax, a, p, sh, junk)} : Finish(out)

\* div_pow10(mul_pow10(x, p), p) for a small p >= 0
RunMulDivPow10(smax, a, p, sh, junk) ==
  Bind([g \in {Args2(smax, junk, a, p, sh)} |->
  Bind([u \in {integer_mul_pow10(g.m, g.x, g.y)} |->
  Bind([r \in {integer_div_pow10(u.m, u.r, g.y)} |->
    Outcome(r.m, Call("mul_div_pow10", <<a, p>>, <<g.x, g.y>>, sh.rc, g.m.o), <<r.r>>)])])])

DoMulDivPow10 ==
  /\ Idle
  /\ \E a \in Operands(MaxScaleCount), p \in ScaleOperands, sh \in Sharings, junk \in JunkSet :
       /\ ~p.neg /\ Len(p.ds) = 1
       /\ SharingFits(st.smax, a, p, sh)
       /\ \E out \in {RunMulDivPow10(st.smax, a, p, sh, junk)} : Finish(out)

\* The bases and the exponents of pow: the special bases, small and big ones;
\* negative, zero and small exponents, and exponents that are BigInts.
PowBases ==
  {a \in Operands(2) : a.ds \in {<<0>>, <<1>>, <<2>>, <<BASE - 1>>, <<0, 1>>, <<0, BASE - 1>>}}

PowExponents ==
  ({[neg |-> s, ds |-> <<d>>] : s \in BOOLEAN, d \in 0..MaxPow}
     \ {[neg |-> TRUE, ds |-> <<0>>]})
    \cup {[neg |-> s, ds |-> ds] : s \in BOOLEAN, ds \in {<<64>>, <<65>>, <<28, 1>>}}

RunPow(smax, a, p, sh, junk) ==
  Bind([g \in {Args2(smax, junk, a, p, sh)} |->
  Bind([r \in {integer_pow(g.m, g.x, g.y)} |->
    Outcome(r.m, Call("pow", <<a, p>>, <<g.x, g.y>>, sh.rc, g.m.o), <<r.r>>)])])

DoPow ==
  /\ Idle
  /\ \E a \in PowBases, p \in PowExponents, sh \in Sharings, junk \in JunkSet :
       /\ SharingFits(st.smax, a, p, sh)
       /\ Len(p.ds) > 1 \/ p.ds[1] > MaxPow => a.ds \in {<<0>>, <<1>>, <<2>>}
       /\ \E out \in {RunPow(st.smax, a, p, sh, junk)} : Finish(out)

\* Literals of the grammar: an optional sign, digits (with an underscore after
\* the first one when under), an optional fraction, an optional exponent.
Signs == {<<>>, <<ChrMinus>>, <<ChrPlus>>}
SigChars == {Chr0, Chr0 + 1, Chr0 + 9}
FracChars == {Chr0, Chr0 + 5}
Strings(cs, lo, hi) == UNION {[1..k -> cs] : k \in lo..hi}

Exponents ==
  { [txt |-> <<>>, v |-> 0],
    [txt |-> <<ChrE, Chr0>>, v |-> 0],
    [txt |-> <<ChrE, Chr0 + 1>>, v |-> 1],
    [txt |-> <<ChrE, Chr0 + 2>>, v |-> 2],
    [txt |-> <<ChrBigE, Chr0 + 2>>, v |-> 2],
    [txt |-> <<ChrE, Chr0 + 3>>, v |-> 3],
    [txt |-> <<ChrE, Chr0, Chr0 + 2>>, v |-> 2] }

Literals ==
  {l \in [sign : Signs, sig : Strings(SigChars, 1, MaxSig), under : BOOLEAN,
          frac : Strings(FracChars, 0, MaxFrac), exp : Exponents] :
     l.under => Len(l.sig) >= 2}

LitText(l) ==
  l.sign
    \o (IF l.under THEN <<l.sig[1], ChrUnder>> \o Tail(l.sig) ELSE l.sig)
    \o (IF l.frac = <<>> THEN <<>> ELSE <<ChrPoint>> \o l.frac)
    \o l.exp.txt

RunParse(smax, l) ==
  Bind([r \in {integer_parse(Machine(smax, 0), LitText(l))} |->
    Outcome(r.m, Call("parse", <<l, LitText(l)>>, <<>>, <<>>, <<>>), <<r.r>>)])

DoParse ==
  /\ Idle
  /\ \E l \in Literals :
       \E out \in {RunParse(st.smax, l)} : Finish(out)

\* count_digits or ctz of the integer that parse returns for a literal.
RunDigitsOfParse(smax, l, op) ==
  Bind([x \in {integer_parse(Machine(smax, 0), LitText(l))} |->
  Bind([r \in {IF x.r = Null THEN x
                ELSE IF op = "ctz_parse" THEN integer_ctz(x.m, x.r)
                ELSE integer_count_digits(x.m, x.r)} |->
    Outcome(r.m, Call(op, <<l, LitText(l)>>, <<>>, <<>>, <<>>), <<r.r>>)])])

DoDigitsOfParse ==
  /\ Idle
  /\ \E l \in Literals, op \in {"ctz_parse", "count_digits_parse"} :
       /\ l.exp.v >= Len(l.frac)
       /\ \E out \in {RunDigitsOfParse(st.smax, l, op)} : Finish(out)

----------------------------------------------------------------------------
(* What a caller observes of a returned integer *)

\* The value of a BigInt: (is_neg ? -1 : 1) * sum of digits[i] * BASE^i
RECURSIVE DigitSum(_, _, _)
DigitSum(m, b, n) ==
  IF n <= 0 THEN 0 ELSE m.o[b].d[n] * BASE ^ (n - 1) + DigitSum(m, b, n - 1)

BigValue(m, b) == bigint_sign_(m, b) * DigitSum(m, b, bigint_count_(m, b))

IntegerValue(m, x) == IF is_bigint(x) THEN BigValue(m, x.v) ELSE x.v

\* Every digit below the count lies in the allocation and has been written.
Defined(m, x) ==
  is_bigint(x) =>
    /\ m.o[x.v].count <= m.o[x.v].cap
    /\ \A i \in 1..m.o[x.v].count : m.o[x.v].d[i] # Uninit

IsInteger(x) == is_smallint(x) \/ is_bigint(x)

----------------------------------------------------------------------------
(* Properties of addition and subtraction *)

----------------------------------------------------------------------------
(* Properties of division *)

Abs(v) == IF v < 0 THEN -v ELSE v

\* C2: for y # 0, div_mod(x, y) returns a quotient q and a remainder r with
\* x = q * y + r and |r| < |y|, where r is zero or has the sign of x and q is
\* negative only when the signs of x and y differ (truncated division), on every
\* path of integer_div_mod_generic.
C2_DivModTruncated ==
  call.op = "div_mod" /\ OperandValue(call.in[2]) # 0 =>
    /\ IsInteger(ret[1]) /\ Defined(st, ret[1])
    /\ IsInteger(ret[2]) /\ Defined(st, ret[2])
    /\ OperandValue(call.in[1]) =
         IntegerValue(st, ret[1]) * OperandValue(call.in[2]) + IntegerValue(st, ret[2])
    /\ Abs(IntegerValue(st, ret[2])) < Abs(OperandValue(call.in[2]))
    /\ \/ IntegerValue(st, ret[2]) = 0
       \/ (IntegerValue(st, ret[2]) < 0) = (OperandValue(call.in[1]) < 0)
    /\ IntegerValue(st, ret[1]) < 0 =>
         (OperandValue(call.in[1]) < 0) # (OperandValue(call.in[2]) < 0)

\* C2 witness: the long division of a negative BigInt by a positive BigInt of
\* two digits, with a negative quotient and a negative remainder.
C2_Witness ==
  /\ call.op = "div_mod"
  /\ is_bigint(call.args[1]) /\ is_bigint(call.args[2])
  /\ call.in[1].neg /\ ~call.in[2].neg
  /\ Len(call.in[1].ds) = 2 /\ Len(call.in[2].ds) = 2
  /\ IsInteger(ret[1]) /\ IsInteger(ret[2])
  /\ IntegerValue(st, ret[1]) < -1
  /\ IntegerValue(st, ret[2]) < 0
  /\ OperandValue(call.in[1]) =
       IntegerValue(st, ret[1]) * OperandValue(call.in[2]) + IntegerValue(st, ret[2])

----------------------------------------------------------------------------
(* Properties of multiplication *)

\* The sign, the count and the digits of a BigInt.
Shape(m, b) ==
  [neg |-> m.o[b].neg, ds |-> [i \in 1..m.o[b].count |-> m.o[b].d[i]]]

\* C3: Karatsuba multiplication returns the same BigInt as schoolbook
\* multiplication of the same operands: the same sign, the same count and the
\* same digits, the top digit not zero; also for operands whose low or high
\* half is zero.
C3_KaratsubaIsSchoolbook ==
  call.op = "mul_both" =>
    /\ is_bigint(ret[1]) /\ is_bigint(ret[2])
    /\ Defined(st, ret[1]) /\ Defined(st, ret[2])
    /\ Shape(st, ret[1].v) = Shape(st, ret[2].v)
    /\ bigint_count_(st, ret[1].v) >= 1
    /\ st.o[ret[1].v].d[bigint_count_(st, ret[1].v)] # 0

----------------------------------------------------------------------------
(* Properties of the representation of results *)

\* The operations that return integers, and the integers the last one returned.
IntegerOps ==
  {"parse", "neg", "add", "sub", "add_neg", "mul", "sqr", "div", "mod", "div_mod",
   "mul_pow10", "div_pow10"}

BigResults == {i \in DOMAIN ret : is_bigint(ret[i])}

InSmallRange(m, v) == v >= -m.smax - 1 /\ v <= m.smax

\* C4: an integer returned by a public operation is a BigInt only when its
\* value is outside the small range, whatever the host's SMALLINT_MAX is; zero
\* in particular is never returned as a BigInt.
C4_BigOnlyOutsideSmall ==
  call.op \in IntegerOps =>
    \A i \in BigResults :
      /\ Defined(st, ret[i])
      /\ ~InSmallRange(st, IntegerValue(st, ret[i]))

\* C5: a BigInt returned by a public operation is canonical: it has at least one
\* digit, every digit is in 0..BASE-1, the top digit is not zero, and it is not
\* a zero with the sign set.
C5_Canonical ==
  call.op \in IntegerOps =>
    \A i \in BigResults :
      LET b == st.o[ret[i].v]
      IN /\ b.count >= 1 /\ b.count <= b.cap
         /\ \A k \in 1..b.count : b.d[k] \in 0..(BASE - 1)
         /\ b.d[b.count] # 0
         /\ b.neg => \E k \in 1..b.count : b.d[k] # 0

\* C6: sub(x, x) and add(x, neg(x)) return the integer zero: the integer that
\* from_int(0) returns, whose decimal string is "0".
C6_SelfInverseIsZero ==
  \/ call.op = "sub" /\ call.in[1] = call.in[2]
  \/ call.op = "add_neg"
  => /\ IsInteger(ret[1])
     /\ ret[1] = integer_from_int(st, 0).r
     /\ integer_to_string(st, ret[1]).r = <<Chr0>>

----------------------------------------------------------------------------
(* Properties of the heap *)

\* The references to the BigInt p that the caller keeps for itself, and the
\* references to it among the results.
Retained(p) ==
  LET at == {i \in DOMAIN call.args : call.args[i] = Big(p)}
      RECURSIVE Sum(_)
      Sum(S) == IF S = {} THEN 0
                ELSE LET i == CHOOSE i \in S : TRUE
                     IN (call.rc[i] - 1) + Sum(S \ {i})
  IN Sum(at)

Returned(p) == Cardinality({i \in DOMAIN ret : ret[i] = Big(p)})

NoFault == \A i \in DOMAIN ret : ret[i] # Fault

\* C7: an operation consumes one reference of each argument and returns one
\* reference per result: when it has returned, every BigInt has exactly the
\* references the caller kept plus those returned, so an argument the caller
\* gave away and every temporary has been freed, and nothing was released twice.
C7_ReferenceBalance ==
  call.op # "idle" /\ NoFault =>
    /\ ~st.bad
    /\ \A p \in DOMAIN st.o : st.o[p].rc = Retained(p) + Returned(p)

\* The arguments of which the caller kept a reference.
SharedArgs == {call.args[i].v : i \in {k \in DOMAIN call.args : is_bigint(call.args[k])}}

\* C8: no operation writes a digit, the count or the sign of a BigInt that has
\* more than one reference when it is written, and a BigInt of which the caller
\* kept a reference has after the operation the sign, the count and the digits
\* it had before.
C8_SharedUnchanged ==
  call.op # "idle" =>
    /\ ~st.wsh
    /\ \A p \in SharedArgs :
         Retained(p) > 0 =>
           /\ st.o[p].rc > 0
           /\ Shape(st, p) = [neg |-> call.heap[p].neg,
                              ds |-> [i \in 1..call.heap[p].count |-> call.heap[p].d[i]]]

\* C8 witness: a negation of a BigInt the caller kept a reference of, which
\* returned another BigInt of the opposite sign and left the argument as it was.
C8_Witness ==
  /\ call.op = "neg"
  /\ is_bigint(call.args[1]) /\ Retained(call.args[1].v) > 0
  /\ is_bigint(ret[1]) /\ ret[1] # call.args[1]
  /\ st.o[ret[1].v].neg # call.heap[call.args[1].v].neg
  /\ st.o[call.args[1].v].neg = call.heap[call.args[1].v].neg
  /\ ~st.wsh

----------------------------------------------------------------------------
(* Properties of the decimal text *)

\* The integer x has the value of the operand a.
IsOperand(m, x, a) ==
  /\ IsInteger(x)
  /\ Defined(m, x)
  /\ IntegerValue(m, x) = OperandValue(a)

\* A decimal string of an integer: digits only after the sign, the first one
\* zero only in "0", and a '-' in front for a negative integer and for no other.
IsDecimal(s, neg) ==
  /\ Len(s) >= (IF neg THEN 2 ELSE 1)
  /\ neg => s[1] = ChrMinus
  /\ \A i \in (IF neg THEN 2 ELSE 1)..Len(s) : isdigit(s[i])
  /\ s[IF neg THEN 2 ELSE 1] = Chr0 => Len(s) = 1

\* C9: to_string(x) is a non-empty decimal string without leading zero (other
\* than "0" itself) and without '+', with one leading '-' exactly when x is
\* negative, and parse(to_string(x)) is x again.
C9_RoundTrip ==
  call.op \in {"to_string", "round_trip"} =>
    /\ ret[1].t = "str"
    /\ IsDecimal(ret[1].v, call.in[1].neg)
    /\ call.op = "round_trip" => IsOperand(st, ret[2], call.in[1])

\* C9 witness: a negative BigInt of two digits, the low one zero, was printed
\* with its sign and padding zeros and parsed back to the same BigInt.
C9_Witness ==
  /\ call.op = "round_trip"
  /\ is_bigint(call.args[1])
  /\ call.in[1].neg /\ Len(call.in[1].ds) = 2 /\ call.in[1].ds[1] = 0
  /\ ret[1].t = "str" /\ Len(ret[1].v) >= 4
  /\ ret[1].v[1] = ChrMinus /\ ret[1].v[Len(ret[1].v)] = Chr0
  /\ is_bigint(ret[2]) /\ Shape(st, ret[2].v) = call.in[1]

\* The number a string of digit characters denotes.
RECURSIVE CharsValue(_, _)
CharsValue(cs, n) ==
  IF n = 0 THEN 0 ELSE 10 * CharsValue(cs, n - 1) + (cs[n] - Chr0)

\* The value a literal denotes when its exponent is at least the number of its
\* fractional digits.
LitValue(l) ==
  (IF l.sign = <<ChrMinus>> THEN -1 ELSE 1)
    * CharsValue(l.sig \o l.frac, Len(l.sig) + Len(l.frac))
    * 10 ^ (l.exp.v - Len(l.frac))

\* C10: parse of a literal of the grammar with frac fractional digits and the
\* exponent exp fails if exp < frac, and otherwise returns the integer whose
\* value is the written digits times 10^(exp - frac) with the written sign, on
\* the machine-integer path and on the BigInt path alike.
C10_ParseValue ==
  call.op = "parse" =>
    IF call.in[1].exp.v < Len(call.in[1].frac)
    THEN ret[1] = Null
    ELSE /\ IsInteger(ret[1])
         /\ Defined(st, ret[1])
         /\ IntegerValue(st, ret[1]) = LitValue(call.in[1])

----------------------------------------------------------------------------
(* Literals with a fraction and an exponent *)

\* The text "1.5" followed by the exponent e.
OnePointFive(e) == <<Chr0 + 1, ChrPoint, Chr0 + 5>> \o e

\* The last call parsed the text s.
Parsed(s) == call.op = "parse" /\ call.in[2] = s

\* The last call returned an integer of the value v.
Returns(v) == IsInteger(ret[1]) /\ Defined(st, ret[1]) /\ IntegerValue(st, ret[1]) = v

\* C11: parse("1.5e1") fails (the literal is rejected as fractional), while
\* parse("1.5e3") returns 1500 and parse("1.5e2") returns 150.
C11_OnePointFive ==
  /\ Parsed(OnePointFive(<<ChrE, Chr0 + 1>>)) => ret[1] = Null
  /\ Parsed(OnePointFive(<<ChrE, Chr0 + 3>>)) => Returns(1500)
  /\ Parsed(OnePointFive(<<ChrE, Chr0 + 2>>)) => Returns(150)

\* C11 as the code has it: parse("1.5e1") returns 15, the exponent being as
\* large as the number of fractional digits; parse("1.5") fails as fractional;
\* parse("1.5e3") returns 1500 and parse("1.5e2") returns 150.
C11_OnePointFiveExact ==
  /\ Parsed(OnePointFive(<<ChrE, Chr0 + 1>>)) => Returns(15)
  /\ Parsed(OnePointFive(<<>>)) => ret[1] = Null
  /\ Parsed(OnePointFive(<<ChrE, Chr0 + 3>>)) => Returns(1500)
  /\ Parsed(OnePointFive(<<ChrE, Chr0 + 2>>)) => Returns(150)

\* C11 witness: "1.5e1" was parsed and the integer 15 came back.
C11_Witness ==
  /\ Parsed(OnePointFive(<<ChrE, Chr0 + 1>>))
  /\ Returns(15)

----------------------------------------------------------------------------
(* Failures *)

\* The last call was a division by zero.
ZeroDivisor ==
  call.op \in {"div", "mod", "div_mod"} /\ OperandValue(call.in[2]) = 0

\* C12: div, mod and div_mod with y = 0 report a failure the caller can tell
\* from every valid integer, for every small or big x: no result of the call
\* reads as a valid quotient or remainder, the result of mod in particular is
\* not a leftover value.
C12_ZeroDivisorFails ==
  ZeroDivisor => \A i \in DOMAIN ret : ret[i] = Null /\ ~IsInteger(ret[i])

\* The last call scaled by a power of ten given as a BigInt.
BigScale ==
  call.op \in {"mul_pow10", "div_pow10"} /\ is_bigint(call.args[2])

\* C13: mul_pow10(x, p) and div_pow10(x, p) with a big p fail for every x: they
\* return no integer, such as 0, that the caller could take for the scaled
\* result.
C13_BigScaleFails ==
  BigScale => ~IsInteger(ret[1])

----------------------------------------------------------------------------
(* Properties of decimal scaling *)

\* The LOG_BASE decimal digits of a digit, the most significant first.
Pad(d) == [i \in 1..LOG_BASE |-> (d \div 10 ^ (LOG_BASE - i)) % 10]

RECURSIVE DecimalOf(_, _)
DecimalOf(ds, n) == IF n = 0 THEN <<>> ELSE Pad(ds[n]) \o DecimalOf(ds, n - 1)

RECURSIVE Strip(_)
Strip(s) ==
  IF s = <<>> THEN <<0>>
  ELSE IF s[1] = 0 /\ Len(s) > 1 THEN Strip(Tail(s)) ELSE s

\* The decimal digits of a magnitude given by its digits, without leading zeros.
Decimal(ds) == Strip(DecimalOf(ds, Len(ds)))

\* The decimal digits and the sign of a returned integer.
ResultDecimal(m, x) ==
  IF is_bigint(x) THEN Decimal([i \in 1..m.o[x.v].count |-> m.o[x.v].d[i]])
  ELSE Decimal(<<Abs(x.v) % BASE, Abs(x.v) \div BASE>>)

ResultNeg(m, x) == IF is_bigint(x) THEN m.o[x.v].neg ELSE x.v < 0

\* x * 10^p and x / 10^p truncated toward zero, on decimal digits.
ScaledUp(dec, p) == IF dec = <<0>> THEN dec ELSE dec \o [i \in 1..p |-> 0]
ScaledDown(dec, p) == IF p >= Len(dec) THEN <<0>> ELSE SubSeq(dec, 1, Len(dec) - p)

\* The decimal digits the last scaling has to return.
Scaled ==
  LET dec == Decimal(call.in[1].ds)
      p == OperandValue(call.in[2])
  IN IF call.op = "mul_div_pow10" THEN dec
     ELSE IF (call.op = "mul_pow10") = (p >= 0) THEN ScaledUp(dec, Abs(p))
     ELSE ScaledDown(dec, Abs(p))

SmallScale ==
  call.op \in {"mul_pow10", "div_pow10", "mul_div_pow10"} /\ is_smallint(call.args[2])

\* C14: for every small or big x of any sign and every small p >= 0,
\* mul_pow10(x, p) is x * 10^p and div_pow10(x, p) is x / 10^p truncated toward
\* zero, so that div_pow10(mul_pow10(x, p), p) is x; for p < 0 each operation is
\* the other one applied to -p.  This holds for p below, equal to and above
\* LOG_BASE, with the buffer reused in place and with a fresh one.
C14_Pow10Exact ==
  SmallScale =>
    /\ IsInteger(ret[1])
    /\ Defined(st, ret[1])
    /\ ResultDecimal(st, ret[1]) = Scaled
    /\ Scaled # <<0>> => ResultNeg(st, ret[1]) = call.in[1].neg

----------------------------------------------------------------------------
(* Properties of pow *)

\* Products and powers of magnitudes given by their digits, the least
\* significant first.
DigitAt(ds, i) == IF i <= Len(ds) THEN ds[i] ELSE 0

RECURSIVE RefScale(_, _, _, _)
RefScale(ds, d, i, carry) ==
  IF i > Len(ds) THEN (IF carry = 0 THEN <<>> ELSE <<carry>>)
  ELSE <<(ds[i] * d + carry) % BASE>> \o RefScale(ds, d, i + 1, (ds[i] * d + carry) \div BASE)

RECURSIVE RefSum(_, _, _, _)
RefSum(a, b, i, carry) ==
  IF i > Len(a) /\ i > Len(b) THEN (IF carry = 0 THEN <<>> ELSE <<carry>>)
  ELSE <<(DigitAt(a, i) + DigitAt(b, i) + carry) % BASE>>
         \o RefSum(a, b, i + 1, (DigitAt(a, i) + DigitAt(b, i) + carry) \div BASE)

RECURSIVE RefMul(_, _, _)
RefMul(a, b, j) ==
  IF j > Len(b) THEN <<>>
  ELSE RefSum(RefScale(a, b[j], 1, 0), <<0>> \o RefMul(a, b, j + 1), 1, 0)

RECURSIVE RefPow(_, _)
RefPow(a, p) ==
  IF p = 0 THEN <<1>>
  ELSE Bind([h \in {RefPow(a, p \div 2)} |->
       Bind([h2 \in {RefMul(h, h, 1)} |->
         IF p % 2 = 0 THEN h2 ELSE RefMul(h2, a, 1)])])

\* The decimal digits and the sign of x^p as the specification defines it.
PowDecimal(a, p) ==
  IF p >= 0 THEN Decimal(RefPow(a.ds, p))
  ELSE IF a.ds = <<1>> THEN <<1>>
  ELSE <<0>>

PowNeg(a, p) == a.neg /\ p % 2 # 0

\* C15: pow(x, p) is 1 for p = 0, 0 for x = 0 and p # 0, 1 for x = 1, 1 or -1 by
\* the parity of p for x = -1, 0 for p < 0 and |x| > 1, and exactly x^p
\* otherwise, with a small exponent and with one that is a BigInt and becomes
\* small while the loops run.
C15_PowExact ==
  call.op = "pow" =>
    /\ IsInteger(ret[1])
    /\ Defined(st, ret[1])
    /\ ResultDecimal(st, ret[1]) = PowDecimal(call.in[1], OperandValue(call.in[2]))
    /\ ResultDecimal(st, ret[1]) # <<0>> =>
         ResultNeg(st, ret[1]) = PowNeg(call.in[1], OperandValue(call.in[2]))

----------------------------------------------------------------------------
(* Properties of cmp *)

Sign(i) == IF i > 0 THEN 1 ELSE IF i < 0 THEN -1 ELSE 0

Compared(i, j) == Raw(Sign(OperandValue(call.in[i]) - OperandValue(call.in[j])))

\* C16: cmp(x, y) returns -1, 0 or 1, the sign of x - y, for small and big
\* operands in any mix; it is antisymmetric, cmp(y, x) = -cmp(x, y), and
\* transitive: when x <= y and y <= z by cmp then x <= z by cmp, and x < z when
\* one of the two is strict.
C16_CmpSign ==
  /\ call.op = "cmp" => ret[1] = Compared(1, 2)
  /\ call.op = "cmp_chain" =>
       /\ ret = <<Compared(1, 2), Compared(2, 1), Compared(2, 3), Compared(1, 3)>>
       /\ ret[2].v = -ret[1].v
       /\ ret[1].v <= 0 /\ ret[3].v <= 0 => ret[4].v <= 0
       /\ ret[1].v <= 0 /\ ret[3].v <= 0 /\ ret[1].v + ret[3].v < 0 => ret[4].v = -1

\* A big negative x is compared with a small y and with a big positive z.
C16_Witness ==
  /\ call.op = "cmp_chain"
  /\ call.in[1].neg /\ Len(call.in[1].ds) = 2 /\ call.in[1].ds[2] = BASE - 1
  /\ call.in[2].ds = <<1>> /\ ~call.in[2].neg
  /\ Len(call.in[3].ds) = 2 /\ ~call.in[3].neg
  /\ ret = <<Raw(-1), Raw(1), Raw(-1), Raw(-1)>>

----------------------------------------------------------------------------
(* Properties of count_digits and ctz *)

\* The number of decimal digits of |v|, 1 for zero, and the number of its
\* trailing decimal zeros, 0 for zero.
RECURSIVE DecimalDigits(_)
DecimalDigits(v) ==
  IF v < 0 THEN DecimalDigits(-v)
  ELSE IF v < 10 THEN 1
  ELSE 1 + DecimalDigits(v \div 10)

RECURSIVE TrailingZeros(_)
TrailingZeros(v) ==
  IF v < 0 THEN TrailingZeros(-v)
  ELSE IF v = 0 \/ v % 10 # 0 THEN 0
  ELSE 1 + TrailingZeros(v \div 10)

\* The integer that count_digits or ctz was asked about.
Asked ==
  IF call.op \in {"ctz", "count_digits"} THEN OperandValue(call.in[1])
  ELSE IF call.op \in {"ctz_add", "count_digits_add"}
  THEN OperandValue(call.in[1]) + OperandValue(call.in[2])
  ELSE LitValue(call.in[1])

\* C17: count_digits(x) is the number of decimal digits of |x|, 1 for zero, and
\* ctz(x) the number of trailing decimal zeros of |x|, 0 for zero, for every
\* integer: one the caller built, one that add returned and one that parse
\* returned.
C17_DigitCounts ==
  /\ call.op \in {"count_digits", "count_digits_add", "count_digits_parse"} =>
       ret[1] = Small(DecimalDigits(Asked))
  /\ call.op \in {"ctz", "ctz_add", "ctz_parse"} =>
       ret[1] = Small(TrailingZeros(Asked))

----------------------------------------------------------------------------
(* Properties of the long division *)

\* C18: in every round of the shift loop of the long division the trial digit
\* qd is at most BASE - 1, and the correction loop runs at most twice and ends
\* with borrow 0, with divisors of one digit that are BigInts and with longer
\* ones; the division terminates.
C18_KnuthBounds ==
  \A i \in DOMAIN st.knuth :
    /\ st.knuth[i].qd <= BASE - 1
    /\ st.knuth[i].n <= 2
    /\ st.knuth[i].borrow = 0

\* A long division whose trial digit was two too large.
C18_Witness ==
  /\ call.op = "long_div"
  /\ \E i \in DOMAIN st.knuth : st.knuth[i].n = 2 /\ st.knuth[i].borrow = 0

----------------------------------------------------------------------------
(* Properties of add_abs and sub_abs *)

\* C19: add_abs and sub_abs read and write only digit slots of the buffer they
\* address, those below its count + extra: when x is reused in place and when
\* z is a fresh BigInt whose capacity is the requested count, in the loops over
\* the digits of y, in the carry and borrow loops, in the copy of the tail and
\* in the final carry digit.
C19_AbsInBuffer ==
  call.op \in {"add_abs", "sub_abs"} =>
    /\ ~st.oob
    /\ NoFault

----------------------------------------------------------------------------
(* Properties of the shift of div_pow10 *)

\* C20: when div_pow10 shifts a BigInt of count digits right by large digits,
\* 0 < large < count, it moves exactly count - large digits, reads only indices
\* below the count of the source and writes only indices below the capacity of
\* the destination, in place when the BigInt is unique and into a fresh BigInt
\* when it is shared; the BigInt it leaves has count - large digits and the
\* sign of the source.
C20_ShiftInBounds ==
  /\ st.move # <<>> => NoFault
  /\ \A i \in DOMAIN st.move :
       /\ st.move[i].n = st.move[i].bcount - st.move[i].large
       /\ st.move[i].large + st.move[i].n <= st.move[i].bcount
       /\ st.move[i].n <= st.move[i].cap
       /\ st.move[i].count = st.move[i].bcount - st.move[i].large
       /\ st.move[i].signed

SpecMul == Init /\ [][DoMulBoth \/ Return]_vars

SpecShared ==
  Init /\ [][DoAdd \/ DoSub \/ DoAddNeg \/ DoMul \/ DoMulBoth \/ DoSqr \/ DoDivMod
              \/ DoNeg \/ DoMulPow10 \/ DoDivPow10 \/ Return]_vars

SpecAddSub == Init /\ [][DoAdd \/ DoSub \/ DoAddNeg \/ Return]_vars

SpecDivMod == Init /\ [][DoDivMod \/ DoDiv \/ DoMod \/ Return]_vars

SpecText == Init /\ [][DoToString \/ DoRoundTrip \/ DoParse \/ Return]_vars

SpecCmp == Init /\ [][DoCmp \/ DoCmpChain \/ Return]_vars

SpecDigits ==
  Init /\ [][DoCountDigits \/ DoCtz \/ DoDigitsOfSum \/ DoDigitsOfParse \/ Return]_vars

SpecLongDiv == Init /\ [][DoLongDiv \/ Return]_vars

SpecAbs == Init /\ [][DoAbs \/ Return]_vars

SpecParse == Init /\ [][DoParse \/ Return]_vars

SpecPow == Init /\ [][DoPow \/ Return]_vars

SpecScale == Init /\ [][DoMulPow10 \/ DoDivPow10 \/ DoMulDivPow10 \/ Return]_vars

Next ==
  \/ DoAdd \/ DoSub \/ DoAddNeg \/ DoAbs \/ DoMul \/ DoMulBoth
  \/ DoDivMod \/ DoDiv \/ DoMod \/ DoLongDiv
  \/ DoNeg \/ DoSqr \/ DoCmp \/ DoCmpChain \/ DoSignum \/ DoIsEven \/ DoCountDigits \/ DoCtz
  \/ DoDigitsOfSum \/ DoDigitsOfParse
  \/ DoMulPow10 \/ DoDivPow10 \/ DoMulDivPow10 \/ DoPow
  \/ DoToString \/ DoRoundTrip \/ DoParse
  \/ Return

Spec == Init /\ [][Next]_vars
====
